---- MODULE Spec2Model ----
(***************************************************************************)
(* symbolista: the concurrent discovery-and-counting pipeline.             *)
(*                                                                         *)
(* Go strings are TLA+ strings (Len, SubSeq, \o, Head and Tail apply to    *)
(* them); file contents are sequences of byte values 0..255; Go maps are   *)
(* functions whose DOMAIN is the set of keys present.                      *)
(***************************************************************************)
EXTENDS Integers, Sequences, FiniteSets, TLC

(***************************************************************************)
(* TLC evaluates operator arguments and LET definitions each time they are *)
(* used; With evaluates an expression once and hands its value on.         *)
(***************************************************************************)

With(e, F(_)) == CHOOSE r \in {F(v) : v \in {e}} : TRUE

With2(e1, e2, F(_, _)) == CHOOSE r \in {F(v1, v2) : v1 \in {e1}, v2 \in {e2}} : TRUE

(***************************************************************************)
(* strings / path/filepath helpers used by the ignore matcher              *)
(***************************************************************************)

Min(S) == CHOOSE x \in S : \A y \in S : x <= y

Max(S) == CHOOSE x \in S : \A y \in S : x >= y

CharAt(s, i) == SubSeq(s, i, i)

HasPrefix(str, pre) ==
    With2(str, pre, LAMBDA s, prefix :
        Len(s) >= Len(prefix) /\ SubSeq(s, 1, Len(prefix)) = prefix)

HasSuffix(str, suf) ==
    With2(str, suf, LAMBDA s, suffix :
        Len(s) >= Len(suffix) /\ SubSeq(s, Len(s) - Len(suffix) + 1, Len(s)) = suffix)

TrimSuffix(str, suf) ==
    With2(str, suf, LAMBDA s, suffix :
        IF HasSuffix(s, suffix) THEN SubSeq(s, 1, Len(s) - Len(suffix)) ELSE s)

\* strings.CutPrefix: the text after the prefix (the caller tests HasPrefix)
CutPrefix(str, prefix) == With(str, LAMBDA s : SubSeq(s, Len(prefix) + 1, Len(s)))

SlashIdx(str) == With(str, LAMBDA s : {i \in 1..Len(s) : CharAt(s, i) = "/"})

\* strings.Split(s, "/")
RECURSIVE Split(_)
Split(str) ==
    With(str, LAMBDA s :
        IF SlashIdx(s) = {} THEN <<s>>
        ELSE With(Min(SlashIdx(s)), LAMBDA i :
                <<SubSeq(s, 1, i - 1)>> \o Split(SubSeq(s, i + 1, Len(s)))))

\* strings.Join(parts, "/")
RECURSIVE Join(_)
Join(elems) ==
    With(elems, LAMBDA parts :
        IF Len(parts) = 0 THEN ""
        ELSE IF Len(parts) = 1 THEN parts[1]
        ELSE parts[1] \o "/" \o Join(Tail(parts)))

IsSpaceChar(c) == c \in {" ", "\t", "\r", "\n"}

\* strings.TrimSpace
RECURSIVE TrimSpace(_)
TrimSpace(str) ==
    With(str, LAMBDA s :
        IF s = "" THEN s
        ELSE IF IsSpaceChar(CharAt(s, 1)) THEN TrimSpace(SubSeq(s, 2, Len(s)))
        ELSE IF IsSpaceChar(CharAt(s, Len(s))) THEN TrimSpace(SubSeq(s, 1, Len(s) - 1))
        ELSE s)

\* filepath.ToSlash: the separator is already '/' on the platforms modelled
ToSlash(s) == s

\* the elements of a path that filepath.Clean keeps: no empty element, no
\* ".", and ".." removes the element before it
RECURSIVE CleanElems(_, _, _)
CleanElems(elems, kept, rooted) ==
    With2(elems, kept, LAMBDA parts, acc :
        IF Len(parts) = 0 THEN acc
        ELSE With(Head(parts), LAMBDA e :
                IF e = "" \/ e = "." THEN CleanElems(Tail(parts), acc, rooted)
                ELSE IF e = ".."
                     THEN IF Len(acc) > 0 /\ acc[Len(acc)] # ".."
                          THEN CleanElems(Tail(parts), SubSeq(acc, 1, Len(acc) - 1), rooted)
                          ELSE IF rooted THEN CleanElems(Tail(parts), acc, rooted)
                          ELSE CleanElems(Tail(parts), Append(acc, e), rooted)
                ELSE CleanElems(Tail(parts), Append(acc, e), rooted)))

\* filepath.Clean
Clean(p) ==
    With(p, LAMBDA path :
        With((IF HasPrefix(path, "/") THEN "/" ELSE "")
                 \o Join(CleanElems(Split(path), <<>>, HasPrefix(path, "/"))),
             LAMBDA out : IF out = "" THEN "." ELSE out))

\* filepath.Dir: Clean of everything up to and including the last separator
Dir(p) ==
    With(p, LAMBDA path :
        IF SlashIdx(path) = {} THEN "."
        ELSE Clean(SubSeq(path, 1, Max(SlashIdx(path)))))

RECURSIVE TrimTrailingSlashes(_)
TrimTrailingSlashes(str) ==
    With(str, LAMBDA s :
        IF Len(s) > 0 /\ CharAt(s, Len(s)) = "/"
        THEN TrimTrailingSlashes(SubSeq(s, 1, Len(s) - 1)) ELSE s)

\* filepath.Base
Base(path) ==
    With(path, LAMBDA q :
        IF q = "" THEN "."
        ELSE With(TrimTrailingSlashes(q), LAMBDA p :
                IF p = "" THEN "/"
                ELSE IF SlashIdx(p) = {} THEN p
                ELSE SubSeq(p, Max(SlashIdx(p)) + 1, Len(p))))

\* filepath.Join(dir, name)
JoinPath(dir, name) == Clean(dir \o "/" \o name)

\* the elements of a cleaned path, "." and "/" having none
PathElems(c) ==
    With(c, LAMBDA cleaned :
        IF cleaned = "." \/ cleaned = "/" THEN <<>>
        ELSE IF HasPrefix(cleaned, "/") THEN Split(SubSeq(cleaned, 2, Len(cleaned)))
        ELSE Split(cleaned))

RECURSIVE CommonLen(_, _)
CommonLen(x, y) ==
    With2(x, y, LAMBDA a, b :
        IF Len(a) = 0 \/ Len(b) = 0 \/ Head(a) # Head(b) THEN 0
        ELSE 1 + CommonLen(Tail(a), Tail(b)))

RECURSIVE Ups(_)
Ups(n) == IF n = 0 THEN <<>> ELSE <<"..">> \o Ups(n - 1)

\* filepath.Rel(basepath, targpath): [err |-> BOOLEAN, rel |-> string]
Rel(basepath, targpath) ==
    With2(Clean(basepath), Clean(targpath), LAMBDA base, targ :
    With2(PathElems(base), PathElems(targ), LAMBDA be, te :
    With(CommonLen(be, te), LAMBDA c :
        IF targ = base THEN [err |-> FALSE, rel |-> "."]
        ELSE IF HasPrefix(base, "/") # HasPrefix(targ, "/") THEN [err |-> TRUE, rel |-> ""]
        ELSE IF c < Len(be) /\ be[c + 1] = ".." THEN [err |-> TRUE, rel |-> ""]
        ELSE [err |-> FALSE,
              rel |-> Join(Ups(Len(be) - c) \o SubSeq(te, c + 1, Len(te)))])))

\* filepath.Match for patterns made of literals, '*' and '?': '*' matches any
\* run of non-separator characters, '?' one non-separator character
RECURSIVE Match(_, _)
Match(pat, str) ==
    With2(pat, str, LAMBDA pattern, name :
        IF pattern = "" THEN name = ""
        ELSE IF Head(pattern) = "*"
             THEN \/ Match(Tail(pattern), name)
                  \/ (name # "" /\ Head(name) # "/" /\ Match(pattern, Tail(name)))
        ELSE /\ name # ""
             /\ \/ (Head(pattern) = "?" /\ Head(name) # "/")
                \/ Head(pattern) = Head(name)
             /\ Match(Tail(pattern), Tail(name)))

(***************************************************************************)
(* The file tree. An entry is named by its path relative to the scan root  *)
(* ("" is the root itself); the walker spells it filepath.Join(root, rel). *)
(* A directory entry carries its rule file: present, status ("ok" or       *)
(* "openerr": exists but cannot be opened) and lines.                      *)
(***************************************************************************)

NoRules == [present |-> FALSE, status |-> "ok", lines |-> <<>>]

RulesOf(lines) == [present |-> TRUE, status |-> "ok", lines |-> lines]

DirE(rel, rules) ==
    [rel |-> rel, kind |-> "dir", content |-> <<>>, readable |-> TRUE, rules |-> rules]

FileE(rel, content) ==
    [rel |-> rel, kind |-> "file", content |-> content, readable |-> TRUE, rules |-> NoRules]

\* the path under which filepath.WalkDir reports an entry
EntryPath(root, e) == IF e.rel = "" THEN root ELSE JoinPath(root, e.rel)

\* the rule file the operating system finds at filepath.Join(dirPath, ".gitignore")
RuleFile(t, root, dirPath) ==
    With(Clean(dirPath), LAMBDA dir :
        With({i \in 1..Len(t) :
                 t[i].kind = "dir" /\ Clean(EntryPath(root, t[i])) = dir},
             LAMBDA hits : IF hits = {} THEN NoRules ELSE t[Min(hits)].rules))

(***************************************************************************)
(* GitignoreMatcher                                                        *)
(***************************************************************************)

\* the scanner loop of loadGitignoreForDir: trimmed, non-blank, non-comment lines
RECURSIVE ParsePatterns(_)
ParsePatterns(text) ==
    With(text, LAMBDA lines :
        IF Len(lines) = 0 THEN <<>>
        ELSE With(TrimSpace(Head(lines)), LAMBDA line :
                (IF line # "" /\ ~HasPrefix(line, "#") THEN <<line>> ELSE <<>>)
                    \o ParsePatterns(Tail(lines))))

\* loadGitignoreForDir: [gm |-> the matcher afterwards, err |-> BOOLEAN]
loadGitignoreForDir(m, t, root, dir) ==
    With2(m, dir, LAMBDA g, dirPath :
    With(RuleFile(t, root, dirPath), LAMBDA file :
    With(ParsePatterns(file.lines), LAMBDA patterns :
        IF ~file.present THEN [gm |-> g, err |-> FALSE]
        ELSE IF file.status = "openerr" THEN [gm |-> g, err |-> TRUE]
        ELSE IF Len(patterns) > 0
             THEN [gm |-> [g EXCEPT
                              !.matchers = [d \in DOMAIN g.matchers \cup {dirPath} |->
                                               IF d = dirPath THEN patterns ELSE g.matchers[d]],
                              !.patterns = IF dirPath = g.basePath THEN patterns
                                           ELSE g.patterns],
                   err |-> FALSE]
             ELSE [gm |-> g, err |-> FALSE])))

\* NewGitignoreMatcher: [gm |-> matcher, err |-> BOOLEAN]
NewGitignoreMatcher(tree, basePath) ==
    loadGitignoreForDir([basePath |-> basePath, matchers |-> <<>>, patterns |-> <<>>],
                        tree, basePath, basePath)

\* matchesPatternUnanchored: a leading '/' is dropped and the pattern then
\* tested like any other, against the base name, the segments and the
\* trailing suffixes too
matchesPatternUnanchored(rel, pattern0) ==
    With2(rel, ToSlash(pattern0), LAMBDA relPath, slashed :
    With2(Split(relPath),
          IF HasPrefix(slashed, "/") THEN CutPrefix(slashed, "/") ELSE slashed,
          LAMBDA parts, pattern :
        \/ Match(pattern, relPath)
        \/ Match(pattern, Base(relPath))
        \/ \E i \in 1..Len(parts) : Match(pattern, parts[i])
        \/ \E i \in 1..Len(parts) : Match(pattern, Join(SubSeq(parts, i, Len(parts))))))

\* matchesPatternSubstring: the pattern tested against every substring of
\* the path, so that part of a segment is enough
matchesPatternSubstring(rel, pattern0) ==
    With2(rel, ToSlash(pattern0), LAMBDA relPath, pattern :
        \E i \in 1..Len(relPath) : \E j \in i..Len(relPath) :
            Match(pattern, SubSeq(relPath, i, j)))

\* GitignoreMatcher.matchesPattern
matchesPattern(rel, pattern0) ==
    With2(rel, ToSlash(pattern0), LAMBDA relPath, pattern :
    With2(Split(relPath), TrimSuffix(pattern, "/"), LAMBDA parts, dirPattern :
    With(CutPrefix(pattern, "/"), LAMBDA after :
        \/ /\ HasSuffix(pattern, "/")
           /\ \/ relPath = dirPattern
              \/ HasPrefix(relPath, dirPattern \o "/")
              \/ \E i \in 1..Len(parts) :
                    parts[i] = dirPattern /\ (i = Len(parts) \/ Len(parts) > i)
        \/ IF HasPrefix(pattern, "/")
           THEN \/ Match(after, relPath)
                \/ \E i \in 1..Len(parts) : Match(after, Join(SubSeq(parts, 1, i)))
           ELSE \/ Match(pattern, relPath)
                \/ Match(pattern, Base(relPath))
                \/ \E i \in 1..Len(parts) : Match(pattern, parts[i])
                \/ \E i \in 1..Len(parts) :
                      Match(pattern, Join(SubSeq(parts, i, Len(parts)))))))

\* DirMatchesNegation: the rule cascade of version control, where the last
\* matching line decides and a line beginning with '!' keeps the path
DirMatchesNegation(g, currentDir, path) ==
    /\ currentDir \in DOMAIN g.matchers
    /\ With2(Rel(currentDir, path), g.matchers[currentDir], LAMBDA relPath, lines :
          /\ ~relPath.err
          /\ With({i \in 1..Len(lines) :
                     matchesPattern(ToSlash(relPath.rel),
                                    IF HasPrefix(lines[i], "!")
                                    THEN CutPrefix(lines[i], "!") ELSE lines[i])},
                  LAMBDA hits : hits # {} /\ ~HasPrefix(lines[Max(hits)], "!")))

\* the patterns of one directory tested against the path relative to it
DirMatches(g, currentDir, path) ==
    /\ currentDir \in DOMAIN g.matchers
    /\ With(Rel(currentDir, path), LAMBDA relPath :
          /\ ~relPath.err
          /\ \E i \in 1..Len(g.matchers[currentDir]) :
                matchesPattern(ToSlash(relPath.rel), g.matchers[currentDir][i]))

\* the loop of ShouldIgnore, from currentDir upward
RECURSIVE ShouldIgnoreFrom(_, _, _)
ShouldIgnoreFrom(g, path, dir) ==
    With(dir, LAMBDA currentDir :
    With2(Rel(g.basePath, currentDir), Dir(currentDir), LAMBDA relDir, parentDir :
        IF relDir.err \/ HasPrefix(relDir.rel, "..") THEN FALSE
        ELSE IF DirMatches(g, currentDir, path) THEN TRUE
        ELSE IF parentDir = currentDir \/ parentDir = "." THEN FALSE
        ELSE ShouldIgnoreFrom(g, path, parentDir)))

\* GitignoreMatcher.ShouldIgnore
ShouldIgnore(m, p) ==
    With2(m, p, LAMBDA g, path : ShouldIgnoreFrom(g, path, Dir(path)))


\* filepath.Ext: from the last '.' of the last element, "" when there is none
Ext(p) ==
    With(p, LAMBDA path :
    With(IF SlashIdx(path) = {} THEN path
         ELSE SubSeq(path, Max(SlashIdx(path)) + 1, Len(path)), LAMBDA b :
    With({i \in 1..Len(b) : CharAt(b, i) = "."}, LAMBDA dots :
        IF dots = {} THEN "" ELSE SubSeq(b, Max(dots), Len(b)))))

\* addDefaultIgnoredExtensions
ignoredExtensions == {".svg"}

\* ExtensionIgnorer.ShouldIgnore
ExtensionShouldIgnore(path) ==
    With(Ext(path), LAMBDA ext : ext # "" /\ ext \in ignoredExtensions)

\* IsDotfileExceptRuleFile: the rule file itself is not taken for a dotfile
IsDotfileExceptRuleFile(path) ==
    With(Base(path), LAMBDA filename :
        HasPrefix(filename, ".") /\ filename # "." /\ filename # ".."
            /\ filename # ".gitignore")

\* the dotfile policy of Matcher.ShouldIgnore
IsDotfile(path) ==
    With(Base(path), LAMBDA filename :
        HasPrefix(filename, ".") /\ filename # "." /\ filename # "..")

\* MatcherShouldIgnoreRulesOverDotfiles: a dot-named path is kept when rules
\* are loaded and none of them matches it
MatcherShouldIgnoreRulesOverDotfiles(m, dotfiles, p) ==
    With2(m, p, LAMBDA g, path :
        \/ ExtensionShouldIgnore(path)
        \/ (~dotfiles /\ IsDotfile(path) /\ DOMAIN g.matchers = {})
        \/ ShouldIgnore(g, path))

\* Matcher.ShouldIgnore: extension denylist, dotfile policy, rule cascade
MatcherShouldIgnore(m, dotfiles, p) ==
    With2(m, p, LAMBDA g, path :
        \/ ExtensionShouldIgnore(path)
        \/ (~dotfiles /\ IsDotfile(path))
        \/ ShouldIgnore(g, path))

(***************************************************************************)
(* Worker: processFile                                                     *)
(***************************************************************************)

EmptyMap == <<>>

Get(map, k) == IF k \in DOMAIN map THEN map[k] ELSE 0

\* map[k] = v
Put(map, k, v) == [x \in DOMAIN map \cup {k} |-> IF x = k THEN v ELSE map[x]]

\* strings.ToLower on the bytes of valid UTF-8 text: 'A'..'Z' and the
\* two-byte upper-case letters U+00C0..U+00DE (0xC3 0x80..0x9E, not 0x97)
RECURSIVE ToLower(_)
ToLower(bytes) ==
    With(bytes, LAMBDA content :
        IF Len(content) = 0 THEN <<>>
        ELSE With(Head(content), LAMBDA b :
                IF b >= 65 /\ b <= 90 THEN <<b + 32>> \o ToLower(Tail(content))
                ELSE IF b = 195 /\ Len(content) >= 2 /\ content[2] >= 128
                        /\ content[2] <= 158 /\ content[2] # 151
                     THEN <<b, content[2] + 32>> \o ToLower(SubSeq(content, 3, Len(content)))
                ELSE <<b>> \o ToLower(Tail(content))))

\* unicode.IsGraphic(rune(b)) for a byte value (Latin-1 range)
IsGraphic(b) == (b >= 32 /\ b <= 126) \/ (b >= 160 /\ b <= 255 /\ b # 173)

\* unicode.IsSpace(rune(b)) for a byte value (Latin-1 range)
IsSpace(b) == b \in {9, 10, 11, 12, 13, 32, 133, 160}

\* Pack2Swapped: the later byte in the high half of the key
Pack2Swapped(b1, b2) == b2 * 256 + b1

\* the packed keys: uint16(b1)<<8 | uint16(b2), uint32(b0)<<16 | uint32(b1)<<8 | uint32(b2)
Pack2(b1, b2) == b1 * 256 + b2

Pack3(b0, b1, b2) == b0 * 65536 + b1 * 256 + b2

\* the keys taken apart again: byte(k2 >> 8), byte(k2) and
\* byte(k3 >> 16), byte(k3 >> 8), byte(k3)
Unpack2(k2) == <<(k2 \div 256) % 256, k2 % 256>>

\* Unpack3LowBytes: the 3-gram key unpacked without its first byte
Unpack3LowBytes(k3) == <<(k3 \div 256) % 256, k3 % 256>>

Unpack3(k3) == <<(k3 \div 65536) % 256, (k3 \div 256) % 256, k3 % 256>>

\* the byte loop of processFile from position i (0-based), st holding the
\* maps, the counter and the window bytes b0, b1
RECURSIVE ScanFrom(_, _, _, _, _)
ScanFrom(content, i, ascii, seqEnabled, state) ==
    With(state, LAMBDA st :
    IF i >= Len(content) THEN st
    ELSE With(content[i + 1], LAMBDA b2 :
             IF (~IsGraphic(b2) /\ ~IsSpace(b2)) \/ (ascii /\ b2 > 127)
             THEN ScanFrom(content, i + 1, ascii, seqEnabled, st)
             ELSE ScanFrom(content, i + 1, ascii, seqEnabled,
                    [charMap      |-> Put(st.charMap, b2, Get(st.charMap, b2) + 1),
                     charCount    |-> st.charCount + 1,
                     sequenceMap2 |->
                        IF seqEnabled /\ i >= 1
                        THEN Put(st.sequenceMap2, Pack2(st.b1, b2),
                                 Get(st.sequenceMap2, Pack2(st.b1, b2)) + 1)
                        ELSE st.sequenceMap2,
                     sequenceMap3 |->
                        IF seqEnabled /\ i >= 2
                        THEN Put(st.sequenceMap3, Pack3(st.b0, st.b1, b2),
                                 Get(st.sequenceMap3, Pack3(st.b0, st.b1, b2)) + 1)
                        ELSE st.sequenceMap3,
                     b0 |-> st.b1,
                     b1 |-> b2])))

\* processFileAnyByte: the byte loop without the test job.AsciiOnly && b2 > 127
processFileAnyByte(j) ==
    With(j, LAMBDA job :
    With(ToLower(job.Content), LAMBDA content :
    With(ScanFrom(content, 0, FALSE, job.SequenceConfig.Enabled,
                  [charMap |-> EmptyMap, charCount |-> 0, sequenceMap2 |-> EmptyMap,
                   sequenceMap3 |-> EmptyMap, b0 |-> 0, b1 |-> 0]), LAMBDA st :
        [CharMap      |-> st.charMap,
         SequenceMap2 |-> st.sequenceMap2,
         SequenceMap3 |-> st.sequenceMap3,
         FileCount    |-> 1,
         CharCount    |-> st.charCount])))

\* processFileCountsBytes: CharCount is the length of the content
processFileCountsBytes(j) ==
    With(j, LAMBDA job :
    With(ToLower(job.Content), LAMBDA content :
    With(ScanFrom(content, 0, job.AsciiOnly, job.SequenceConfig.Enabled,
                  [charMap |-> EmptyMap, charCount |-> 0, sequenceMap2 |-> EmptyMap,
                   sequenceMap3 |-> EmptyMap, b0 |-> 0, b1 |-> 0]), LAMBDA st :
        [CharMap      |-> st.charMap,
         SequenceMap2 |-> st.sequenceMap2,
         SequenceMap3 |-> st.sequenceMap3,
         FileCount    |-> 1,
         CharCount    |-> Len(content)])))

\* processFileEmptyUncounted: an empty file yields the zero CharCountResult,
\* FileCount 0 included, and a file of one byte is counted as a 2-gram of its
\* own with the zero byte before it
processFileEmptyUncounted(j) ==
    With(j, LAMBDA job :
    With(ToLower(job.Content), LAMBDA content :
    With(ScanFrom(content, 0, job.AsciiOnly, job.SequenceConfig.Enabled,
                  [charMap |-> EmptyMap, charCount |-> 0, sequenceMap2 |-> EmptyMap,
                   sequenceMap3 |-> EmptyMap, b0 |-> 0, b1 |-> 0]), LAMBDA st :
        [CharMap      |-> st.charMap,
         SequenceMap2 |-> IF Len(content) = 1 /\ job.SequenceConfig.Enabled
                          THEN Put(EmptyMap, Pack2(0, content[1]), 1)
                          ELSE st.sequenceMap2,
         SequenceMap3 |-> st.sequenceMap3,
         FileCount    |-> IF Len(content) = 0 THEN 0 ELSE 1,
         CharCount    |-> st.charCount])))

\* WorkerPool.processFile: the CharCountResult of one job
processFile(j) ==
    With(j, LAMBDA job :
    With(ToLower(job.Content), LAMBDA content :
    With(ScanFrom(content, 0, job.AsciiOnly, job.SequenceConfig.Enabled,
                  [charMap |-> EmptyMap, charCount |-> 0, sequenceMap2 |-> EmptyMap,
                   sequenceMap3 |-> EmptyMap, b0 |-> 0, b1 |-> 0]), LAMBDA st :
        [CharMap      |-> st.charMap,
         SequenceMap2 |-> st.sequenceMap2,
         SequenceMap3 |-> st.sequenceMap3,
         FileCount    |-> 1,
         CharCount    |-> st.charCount])))

(***************************************************************************)
(* ResultCollector. Its maps live on a heap (a sequence of maps, an        *)
(* address being an index), so that sharing between the collector and a    *)
(* returned snapshot is visible.                                           *)
(***************************************************************************)

\* NewResultCollector: the four maps of the collector at addresses 1..4
NewResultCollector ==
    [totalCharMap |-> 1, totalSequenceMap2 |-> 2, totalSequenceMap3 |-> 3,
     totalFiles |-> 0, totalChars |-> 0, filesFound |-> 0, filesIgnored |-> 0,
     timing |-> 4]

NewHeap == <<EmptyMap, EmptyMap, EmptyMap, EmptyMap>>

\* MergeMapOverwrite: total[k] = count where the code has total[k] += count
MergeMapOverwrite(total, incoming) ==
    With2(total, incoming, LAMBDA t, inc :
        [k \in DOMAIN t \cup DOMAIN inc |-> IF k \in DOMAIN inc THEN inc[k] ELSE t[k]])

\* for k, count := range incoming { total[k] += count }; the uint32 counts of
\* the sequence maps stay far below 2^32 for the contents modelled
MergeMap(total, incoming) ==
    With2(total, incoming, LAMBDA t, inc :
        [k \in DOMAIN t \cup DOMAIN inc |-> Get(t, k) + Get(inc, k)])

\* what the collector holds: the values an AddResult reads and writes back
CollectorValues(c, h) ==
    [totalCharMap      |-> h[c.totalCharMap],
     totalSequenceMap2 |-> h[c.totalSequenceMap2],
     totalSequenceMap3 |-> h[c.totalSequenceMap3],
     totalFiles        |-> c.totalFiles,
     totalChars        |-> c.totalChars,
     timing            |-> h[c.timing]]

\* the body of AddResult on the values it read, d being time.Since(startAdding)
AddResultValues(vals, res, d) ==
    With2(vals, res, LAMBDA v, result :
    [totalCharMap      |-> MergeMap(v.totalCharMap, result.CharMap),
     totalSequenceMap2 |-> MergeMap(v.totalSequenceMap2, result.SequenceMap2),
     totalSequenceMap3 |-> MergeMap(v.totalSequenceMap3, result.SequenceMap3),
     totalFiles        |-> v.totalFiles + result.FileCount,
     totalChars        |-> v.totalChars + result.CharCount,
     timing            |-> Put(v.timing, "AddResult", Get(v.timing, "AddResult") + d)])

\* the collector record after the values v were written back
StoreCollector(c, v) ==
    [c EXCEPT !.totalFiles = v.totalFiles, !.totalChars = v.totalChars]

\* the heap after the values v were written back into the collector's maps
StoreHeap(c, h, v) ==
    [a \in 1..Len(h) |->
        IF a = c.totalCharMap THEN v.totalCharMap
        ELSE IF a = c.totalSequenceMap2 THEN v.totalSequenceMap2
        ELSE IF a = c.totalSequenceMap3 THEN v.totalSequenceMap3
        ELSE IF a = c.timing THEN v.timing
        ELSE h[a]]

\* GetResults: maps.Copy into three fresh maps; the ResultTiming struct is
\* returned by value, its Values field still referring to the same map
GetResults(c, h) ==
    [snap |-> [charMap      |-> Len(h) + 1,
               sequenceMap2 |-> Len(h) + 2,
               sequenceMap3 |-> Len(h) + 3,
               totalFiles   |-> c.totalFiles,
               totalChars   |-> c.totalChars,
               filesFound   |-> c.filesFound,
               filesIgnored |-> c.filesIgnored,
               timing       |-> c.timing],
     heap |-> h \o <<h[c.totalCharMap], h[c.totalSequenceMap2], h[c.totalSequenceMap3]>>]


(***************************************************************************)
(* Bounds and the inputs the runs are drawn from                           *)
(***************************************************************************)

\* runtime.NumCPU() of the machine modelled
NumCPU == 1

\* the largest configured worker count
MaxWorkers == 2

\* the largest time.Since(startAdding) of one AddResult, in clock ticks
MaxDuration == 1

\* 0 stands for every count that selects the default
WorkerCounts == 0..MaxWorkers

Durations == 1..MaxDuration

SpecialE(rel) ==
    [rel |-> rel, kind |-> "special", content |-> <<>>, readable |-> TRUE, rules |-> NoRules]

UnreadableFileE(rel) ==
    [rel |-> rel, kind |-> "file", content |-> <<>>, readable |-> FALSE, rules |-> NoRules]

UnreadableDirE(rel) ==
    [rel |-> rel, kind |-> "dir", content |-> <<>>, readable |-> FALSE, rules |-> NoRules]

MissingRootE ==
    [rel |-> "", kind |-> "missing", content |-> <<>>, readable |-> FALSE, rules |-> NoRules]

\* a.txt = "aaa", b.txt = "bb", the rule file excluding b.txt
TreeEndToEnd ==
    << DirE("", RulesOf(<<"b.txt">>)),
       FileE(".gitignore", <<98, 46, 116, 120, 116, 10>>),
       FileE("a.txt", <<97, 97, 97>>),
       FileE("b.txt", <<98, 98>>) >>

\* four files sharing characters, enough to fill the job queue of one worker
TreeFlat ==
    << DirE("", NoRules),
       FileE("f1", <<97, 98>>),
       FileE("f2", <<98, 97, 98>>),
       FileE("f3", <<65>>),
       FileE("f4", <<>>) >>

\* every way a file is skipped, a pruned directory and nested rule files
TreeMixed ==
    << DirE("", RulesOf(<<"*.log", "out/">>)),
       FileE(".gitignore", <<42, 46, 108, 111, 103, 10, 111, 117, 116, 47, 10>>),
       FileE("a.txt", <<97, 32, 98>>),
       FileE("app.log", <<120>>),
       SpecialE("link"),
       UnreadableFileE("locked"),
       DirE("out", RulesOf(<<"*.md">>)),
       FileE("out/.gitignore", <<42, 46, 109, 100, 10>>),
       FileE("out/o.txt", <<111>>),
       DirE("project", RulesOf(<<"*.tmp">>)),
       FileE("project/.gitignore", <<42, 46, 116, 109, 112, 10>>),
       FileE("project/c.txt", <<195, 137, 97>>),
       FileE("project/x.tmp", <<120>>),
       FileE("raw", <<255, 97>>) >>

\* a directory that cannot be read next to a readable sibling
TreeSubtreeError ==
    << DirE("", NoRules),
       UnreadableDirE("closed"),
       FileE("z.txt", <<122, 122>>) >>

\* the configured root does not exist
TreeMissingRoot == << MissingRootE >>

PipelineTrees == {TreeEndToEnd, TreeFlat, TreeMixed, TreeSubtreeError, TreeMissingRoot}

PipelineRoots == {"/root", "."}

\* asciiOnly, sequence extraction, dotfiles
PipelineConfigs ==
    { [asciiOnly |-> TRUE,  seq |-> TRUE,  dotfiles |-> FALSE],
      [asciiOnly |-> FALSE, seq |-> FALSE, dotfiles |-> TRUE] }


\* utf8.Valid
RECURSIVE Utf8Valid(_)
Utf8Valid(bytes) ==
    With(bytes, LAMBDA c :
    IF Len(c) = 0 THEN TRUE
    ELSE LET b == c[1]
             In(i, lo, hi) == Len(c) >= i /\ c[i] >= lo /\ c[i] <= hi
             Rest(n) == Utf8Valid(SubSeq(c, n + 1, Len(c)))
         IN  IF b < 128 THEN Rest(1)
             ELSE IF b >= 194 /\ b <= 223 THEN In(2, 128, 191) /\ Rest(2)
             ELSE IF b = 224 THEN In(2, 160, 191) /\ In(3, 128, 191) /\ Rest(3)
             ELSE IF b = 237 THEN In(2, 128, 159) /\ In(3, 128, 191) /\ Rest(3)
             ELSE IF b >= 225 /\ b <= 239 THEN In(2, 128, 191) /\ In(3, 128, 191) /\ Rest(3)
             ELSE IF b = 240
                  THEN In(2, 144, 191) /\ In(3, 128, 191) /\ In(4, 128, 191) /\ Rest(4)
             ELSE IF b >= 241 /\ b <= 243
                  THEN In(2, 128, 191) /\ In(3, 128, 191) /\ In(4, 128, 191) /\ Rest(4)
             ELSE IF b = 244
                  THEN In(2, 128, 143) /\ In(3, 128, 191) /\ In(4, 128, 191) /\ Rest(4)
             ELSE FALSE)

(***************************************************************************)
(* State                                                                   *)
(***************************************************************************)

VARIABLES
    rootPath,        \* the root path as passed by the caller
    tree,            \* the file tree, entries in the walk's lexical pre-order
    gm,              \* GitignoreMatcher: basePath, matchers, patterns
    includeDotfiles, \* Matcher.includeDotfiles
    qpath,           \* the last path ShouldIgnore was asked about
    qres,            \* and its answer
    added,           \* rule lines appended to rule files so far
    workerCount,     \* the worker count as configured
    asciiOnly,
    sequenceConfig,
    walker,          \* DiscoverFiles: idx (entry under visit), pc, job (being sent)
    jobs,            \* WorkerPool.jobs, a buffered channel
    jobsClosed,
    workers,         \* per worker: pc, result (to send), fileCount
    results,         \* WorkerPool.results, a buffered channel
    resultsClosed,
    closer,          \* the goroutine of Start: wg.Wait, close(results), done <- true
    orch,            \* WalkDirectoryConcurrent on the calling task
    discoveryError,
    ret,             \* what WalkDirectoryConcurrent returned
    rc,              \* ResultCollector
    heap,            \* the maps, by address
    mu,              \* ResultCollector.mu: writer (0: none) and readers
    tasks,           \* callers of the collector: pc, op, arg, local
    snaps,           \* the snapshots GetResults returned, with what the reader saw
    submitted,       \* how often each sample result was passed to AddResult
    published,       \* history: the entries published as jobs, in order
    consumed,        \* history: how often each published entry was received
    merged,          \* history: the entries whose result was merged, in order
    progress,        \* history: the arguments of the progress callback
    stalls,          \* history: how often the walker found the job queue full
    analysis,        \* AnalyzeSymbols: pc, Threshold, topNSeq, err and the result
    probe,           \* a direct call of a function: its arguments and what it returned
    tui              \* the terminal interface: Model, commands, messages, analysis tasks

matcherVars == <<rootPath, tree, gm, includeDotfiles, qpath, qres, added>>

configVars == <<workerCount, asciiOnly, sequenceConfig>>

pipeVars == <<walker, jobs, jobsClosed, workers, results, resultsClosed, closer, orch,
              discoveryError, ret, published, consumed, merged, progress, stalls>>

collectorVars == <<rc, heap, mu>>

taskVars == <<tasks, snaps, submitted>>

callerVars == <<analysis, probe, tui>>

vars == <<matcherVars, configVars, pipeVars, collectorVars, taskVars, callerVars>>

NoError == ""

NoJob == [Path |-> "", Content |-> <<>>, AsciiOnly |-> FALSE,
          SequenceConfig |-> [Enabled |-> FALSE], rel |-> ""]

NoResult == [CharMap |-> EmptyMap, SequenceMap2 |-> EmptyMap, SequenceMap3 |-> EmptyMap,
             FileCount |-> 0, CharCount |-> 0, rel |-> ""]

NoRet == [returned |-> FALSE]

\* the lock: who holds it, and whether a caller ever had to wait for it
MuFree == [writer |-> 0, readers |-> {}, contended |-> FALSE]

\* NoDefaultWorkers: the configured count taken as it is
NoDefaultWorkers(n) == n

\* WalkDirectoryConcurrent / NewWorkerPool: workerCount <= 0 selects runtime.NumCPU()
EffectiveWorkers(n) == IF n <= 0 THEN NumCPU ELSE n

\* BufferSizeTripled: channels of three slots per worker
BufferSizeTripled == EffectiveWorkers(workerCount) * 3

\* bufferSize := workerCount * 2, the capacity of both channels
BufferSize == EffectiveWorkers(workerCount) * 2

Workers == 1..EffectiveWorkers(workerCount)

(***************************************************************************)
(* The pipeline: WalkDirectoryConcurrent, DiscoverFiles, the worker pool.  *)
(* The collector's critical sections are single steps here; CollectorSpec  *)
(* below takes them apart.                                                 *)
(***************************************************************************)

Rels(t) == {t[i].rel : i \in 1..Len(t)}

\* the state after NewMatcher, NewResultCollector, NewWorkerPool and Start
InitRun(t, root, cfg, n) ==
    /\ tree = t
    /\ rootPath = root
    /\ gm = NewGitignoreMatcher(t, root).gm
    /\ includeDotfiles = cfg.dotfiles
    /\ qpath = ""
    /\ qres = FALSE
    /\ added = 0
    /\ workerCount = n
    /\ asciiOnly = cfg.asciiOnly
    /\ sequenceConfig = [Enabled |-> cfg.seq]
    /\ walker = [idx |-> 1, pc |-> "walk", job |-> NoJob]
    /\ jobs = <<>>
    /\ jobsClosed = FALSE
    /\ workers = [w \in 1..EffectiveWorkers(n) |->
                     [pc |-> "recv", result |-> NoResult, fileCount |-> 0]]
    /\ results = <<>>
    /\ resultsClosed = FALSE
    /\ closer = "wait"
    /\ orch = "drain"
    /\ discoveryError = NoError
    /\ ret = NoRet
    /\ rc = NewResultCollector
    /\ heap = NewHeap
    /\ mu = MuFree
    /\ published = <<>>
    /\ consumed = [r \in Rels(t) |-> 0]
    /\ merged = <<>>
    /\ progress = <<>>
    /\ stalls = 0

\* AnalyzeSymbols has called WalkDirectoryConcurrent; no function is called directly
NoAnalysis == [pc |-> "walking"]

NoProbe == [op |-> "none"]

\* no terminal interface runs
NoTui == [quit |-> TRUE]

InitCaller ==
    /\ analysis = NoAnalysis
    /\ probe = NoProbe
    /\ tui = NoTui

\* WalkDirectoryConcurrent is the collector's only caller
InitPipeline(t, root, cfg, n) ==
    /\ InitRun(t, root, cfg, n)
    /\ tasks = <<>>
    /\ snaps = <<>>
    /\ submitted = <<>>
    /\ InitCaller

Init ==
    \E t \in PipelineTrees, root \in PipelineRoots, cfg \in PipelineConfigs,
       n \in WorkerCounts : InitPipeline(t, root, cfg, n)

Entry == tree[walker.idx]

Path == EntryPath(rootPath, Entry)

\* where the walk continues after the subtree of entry i; the subtree of
\* the root is the whole tree
SkipTo(i) ==
    IF tree[i].rel = "" THEN Len(tree) + 1
    ELSE Min({j \in (i + 1)..Len(tree) : ~HasPrefix(tree[j].rel, tree[i].rel \o "/")}
                \cup {Len(tree) + 1})

\* RecordErrorLast: every error reported overwrites the one recorded
RecordErrorLast(cur, err) == err

\* the errorCallback of WalkDirectoryConcurrent: the first error wins
RecordError(cur, err) == IF cur = NoError THEN err ELSE cur

\* the walk callback with err != nil at the root: os.Lstat(root) failed
WalkerRootError ==
    /\ walker.pc = "walk"
    /\ walker.idx <= Len(tree)
    /\ Entry.kind = "missing"
    /\ discoveryError' = RecordError(discoveryError, "lstat " \o Path)
    /\ walker' = [walker EXCEPT !.idx = @ + 1]
    /\ UNCHANGED <<matcherVars, configVars, callerVars, collectorVars, taskVars, jobs, jobsClosed,
                   workers, results, resultsClosed, closer, orch, ret, published,
                   consumed, merged, progress, stalls>>

\* WalkerDirEnters: return nil where the code returns filepath.SkipDir
WalkerDirEnters ==
    /\ walker.pc = "walk"
    /\ walker.idx <= Len(tree)
    /\ Entry.kind = "dir"
    /\ LET load == loadGitignoreForDir(gm, tree, rootPath, Path)
       IN  /\ gm' = load.gm
           /\ IF ~Entry.readable
              THEN /\ walker' = [walker EXCEPT !.idx = SkipTo(walker.idx)]
                   /\ discoveryError' = RecordError(discoveryError, "readdir " \o Path)
              ELSE /\ walker' = [walker EXCEPT !.idx = @ + 1]
                   /\ UNCHANGED discoveryError
    /\ UNCHANGED <<rootPath, tree, includeDotfiles, qpath, qres, added, configVars, callerVars,
                   collectorVars, taskVars, jobs, jobsClosed, workers, results,
                   resultsClosed, closer, orch, ret, published, consumed, merged, progress, stalls>>

\* the walk callback on a directory, and the second callback with the
\* ReadDir error when the directory cannot be read
WalkerDir ==
    /\ walker.pc = "walk"
    /\ walker.idx <= Len(tree)
    /\ Entry.kind = "dir"
    /\ LET load   == loadGitignoreForDir(gm, tree, rootPath, Path)
           pruned == Path # rootPath /\ MatcherShouldIgnore(load.gm, includeDotfiles, Path)
       IN  /\ gm' = load.gm
           /\ IF pruned
              THEN /\ walker' = [walker EXCEPT !.idx = SkipTo(walker.idx)]
                   /\ UNCHANGED discoveryError
              ELSE IF ~Entry.readable
              THEN /\ walker' = [walker EXCEPT !.idx = SkipTo(walker.idx)]
                   /\ discoveryError' = RecordError(discoveryError, "readdir " \o Path)
              ELSE /\ walker' = [walker EXCEPT !.idx = @ + 1]
                   /\ UNCHANGED discoveryError
    /\ UNCHANGED <<rootPath, tree, includeDotfiles, qpath, qres, added, configVars, callerVars,
                   collectorVars, taskVars, jobs, jobsClosed, workers, results,
                   resultsClosed, closer, orch, ret, published, consumed, merged, progress, stalls>>

\* WalkerFoundAfterSpecial: IncrementFound placed after the special-file check
WalkerFoundAfterSpecial ==
    /\ walker.pc = "walk"
    /\ walker.idx <= Len(tree)
    /\ tree[walker.idx].kind \in {"file", "special"}
    /\ rc' = IF tree[walker.idx].kind = "special" THEN rc
             ELSE [rc EXCEPT !.filesFound = @ + 1]
    /\ progress' = Append(progress, <<rc'.filesFound, rc'.filesFound - rc.filesIgnored>>)
    /\ walker' = [walker EXCEPT !.pc = "found"]
    /\ UNCHANGED <<matcherVars, configVars, callerVars, taskVars, heap, mu, jobs, jobsClosed, workers,
                   results, resultsClosed, closer, orch, discoveryError, ret, published,
                   consumed, merged, stalls>>

\* collector.IncrementFound() and the progress callback
WalkerFound ==
    /\ walker.pc = "walk"
    /\ walker.idx <= Len(tree)
    /\ Entry.kind \in {"file", "special"}
    /\ rc' = [rc EXCEPT !.filesFound = @ + 1]
    /\ progress' = Append(progress, <<rc.filesFound + 1, rc.filesFound + 1 - rc.filesIgnored>>)
    /\ walker' = [walker EXCEPT !.pc = "found"]
    /\ UNCHANGED <<matcherVars, configVars, callerVars, taskVars, heap, mu, jobs, jobsClosed, workers,
                   results, resultsClosed, closer, orch, discoveryError, ret, published,
                   consumed, merged, stalls>>

\* why DiscoverFiles counts the file as ignored instead of publishing it
Skipped(e, path) ==
    \/ e.kind = "special"
    \/ MatcherShouldIgnore(gm, includeDotfiles, path)
    \/ ~e.readable
    \/ ~Utf8Valid(e.content)

\* WalkerIgnoreUncounted: return nil without collector.IncrementIgnored() for
\* a file that cannot be read or is not UTF-8
WalkerIgnoreUncounted ==
    /\ walker.pc = "found"
    /\ Skipped(tree[walker.idx], EntryPath(rootPath, tree[walker.idx]))
    /\ rc' = IF \/ tree[walker.idx].kind = "special"
                \/ MatcherShouldIgnore(gm, includeDotfiles,
                                       EntryPath(rootPath, tree[walker.idx]))
             THEN [rc EXCEPT !.filesIgnored = @ + 1]
             ELSE rc
    /\ walker' = [walker EXCEPT !.pc = "walk", !.idx = @ + 1]
    /\ UNCHANGED <<matcherVars, configVars, callerVars, taskVars, heap, mu, jobs, jobsClosed, workers,
                   results, resultsClosed, closer, orch, discoveryError, ret, published,
                   consumed, merged, progress, stalls>>

\* collector.IncrementIgnored(); return nil
WalkerIgnore ==
    /\ walker.pc = "found"
    /\ Skipped(Entry, Path)
    /\ rc' = [rc EXCEPT !.filesIgnored = @ + 1]
    /\ walker' = [walker EXCEPT !.pc = "walk", !.idx = @ + 1]
    /\ UNCHANGED <<matcherVars, configVars, callerVars, taskVars, heap, mu, jobs, jobsClosed, workers,
                   results, resultsClosed, closer, orch, discoveryError, ret, published,
                   consumed, merged, progress, stalls>>

\* the FileJob of the entry under visit
JobOf(e, path) ==
    [Path |-> path, Content |-> e.content, AsciiOnly |-> asciiOnly,
     SequenceConfig |-> sequenceConfig, rel |-> e.rel]

\* WalkerPublishDropping: a default branch that gives the job up when the
\* queue is full
WalkerPublishDropping ==
    /\ walker.pc = "found"
    /\ ~Skipped(tree[walker.idx], EntryPath(rootPath, tree[walker.idx]))
    /\ jobs' = IF Len(jobs) < BufferSize
               THEN Append(jobs, JobOf(tree[walker.idx], EntryPath(rootPath, tree[walker.idx])))
               ELSE jobs
    /\ stalls' = IF Len(jobs) < BufferSize THEN stalls ELSE stalls + 1
    /\ walker' = [walker EXCEPT !.pc = "walk", !.idx = @ + 1]
    /\ published' = Append(published, tree[walker.idx].rel)
    /\ UNCHANGED <<matcherVars, configVars, callerVars, collectorVars, taskVars, jobsClosed, workers,
                   results, resultsClosed, closer, orch, discoveryError, ret, consumed,
                   merged, progress>>

\* select { case jobChan <- job: default: ... }: sends when there is room,
\* else goes on to the blocking send
WalkerPublish ==
    /\ walker.pc = "found"
    /\ ~Skipped(Entry, Path)
    /\ IF Len(jobs) < BufferSize
       THEN /\ jobs' = Append(jobs, JobOf(Entry, Path))
            /\ walker' = [walker EXCEPT !.pc = "walk", !.idx = @ + 1]
            /\ UNCHANGED stalls
       ELSE /\ walker' = [walker EXCEPT !.pc = "send", !.job = JobOf(Entry, Path)]
            /\ stalls' = stalls + 1
            /\ UNCHANGED jobs
    /\ published' = Append(published, Entry.rel)
    /\ UNCHANGED <<matcherVars, configVars, callerVars, collectorVars, taskVars, jobsClosed, workers,
                   results, resultsClosed, closer, orch, discoveryError, ret, consumed,
                   merged, progress>>

\* jobChan <- job, blocking until there is room
WalkerSend ==
    /\ walker.pc = "send"
    /\ Len(jobs) < BufferSize
    /\ jobs' = Append(jobs, walker.job)
    /\ walker' = [walker EXCEPT !.pc = "walk", !.idx = @ + 1, !.job = NoJob]
    /\ UNCHANGED <<matcherVars, configVars, callerVars, collectorVars, taskVars, jobsClosed, workers,
                   results, resultsClosed, closer, orch, discoveryError, ret, published,
                   consumed, merged, progress, stalls>>

\* WalkerCloseEarly: close(jobChan) at some point of the walk instead of
\* deferred to its end
WalkerCloseEarly ==
    /\ walker.pc = "walk"
    /\ ~jobsClosed
    /\ jobsClosed' = TRUE
    /\ UNCHANGED <<matcherVars, configVars, callerVars, collectorVars, taskVars, walker, jobs, workers,
                   results, resultsClosed, closer, orch, discoveryError, ret, published, consumed,
                   merged, progress, stalls>>

\* defer close(jobChan), when the walk has returned
WalkerClose ==
    /\ walker.pc = "walk"
    /\ walker.idx > Len(tree)
    /\ jobsClosed' = TRUE
    /\ walker' = [walker EXCEPT !.pc = "done"]
    /\ UNCHANGED <<matcherVars, configVars, callerVars, collectorVars, taskVars, jobs, workers, results,
                   resultsClosed, closer, orch, discoveryError, ret, published, consumed,
                   merged, progress, stalls>>

\* for job := range wp.jobs { result := wp.processFile(job, id)
WorkerRecv(w) ==
    /\ workers[w].pc = "recv"
    /\ Len(jobs) > 0
    /\ LET job == Head(jobs)
           r   == processFile(job)
       IN  /\ workers' = [workers EXCEPT ![w] =
                             [pc |-> "send",
                              result |-> [CharMap |-> r.CharMap,
                                          SequenceMap2 |-> r.SequenceMap2,
                                          SequenceMap3 |-> r.SequenceMap3,
                                          FileCount |-> r.FileCount,
                                          CharCount |-> r.CharCount,
                                          rel |-> job.rel],
                              fileCount |-> @.fileCount + 1]]
           /\ consumed' = [consumed EXCEPT ![job.rel] = @ + 1]
    /\ jobs' = Tail(jobs)
    /\ UNCHANGED <<matcherVars, configVars, callerVars, collectorVars, taskVars, walker, jobsClosed,
                   results, resultsClosed, closer, orch, discoveryError, ret, published,
                   merged, progress, stalls>>

\* wp.results <- result }
WorkerSend(w) ==
    /\ workers[w].pc = "send"
    /\ Len(results) < BufferSize
    /\ results' = Append(results, workers[w].result)
    /\ workers' = [workers EXCEPT ![w].pc = "recv", ![w].result = NoResult]
    /\ UNCHANGED <<matcherVars, configVars, callerVars, collectorVars, taskVars, walker, jobs, jobsClosed,
                   resultsClosed, closer, orch, discoveryError, ret, published, consumed,
                   merged, progress, stalls>>

\* WorkerExitOnEmpty: a loop that ends as soon as no job is waiting
WorkerExitOnEmpty(w) ==
    /\ workers[w].pc = "recv"
    /\ Len(jobs) = 0
    /\ workers' = [workers EXCEPT ![w].pc = "exited"]
    /\ UNCHANGED <<matcherVars, configVars, callerVars, collectorVars, taskVars, walker, jobs, jobsClosed,
                   results, resultsClosed, closer, orch, discoveryError, ret, published,
                   consumed, merged, progress, stalls>>

\* the range loop ends: the job channel is closed and drained; wg.Done()
WorkerExit(w) ==
    /\ workers[w].pc = "recv"
    /\ Len(jobs) = 0
    /\ jobsClosed
    /\ workers' = [workers EXCEPT ![w].pc = "exited"]
    /\ UNCHANGED <<matcherVars, configVars, callerVars, collectorVars, taskVars, walker, jobs, jobsClosed,
                   results, resultsClosed, closer, orch, discoveryError, ret, published,
                   consumed, merged, progress, stalls>>

\* CloserCloseNoWait: close(wp.results) without wp.wg.Wait()
CloserCloseNoWait ==
    /\ closer = "wait"
    /\ resultsClosed' = TRUE
    /\ closer' = "send"
    /\ UNCHANGED <<matcherVars, configVars, callerVars, collectorVars, taskVars, walker, jobs, jobsClosed,
                   workers, results, orch, discoveryError, ret, published, consumed, merged,
                   progress, stalls>>

\* wp.wg.Wait(); close(wp.results)
CloserClose ==
    /\ closer = "wait"
    /\ \A w \in Workers : workers[w].pc = "exited"
    /\ resultsClosed' = TRUE
    /\ closer' = "send"
    /\ UNCHANGED <<matcherVars, configVars, callerVars, collectorVars, taskVars, walker, jobs, jobsClosed,
                   workers, results, orch, discoveryError, ret, published, consumed, merged,
                   progress, stalls>>

\* wp.done <- true meeting <-pool.Done(): the channel is unbuffered
DoneHandshake ==
    /\ closer = "send"
    /\ orch = "waitdone"
    /\ closer' = "finished"
    /\ orch' = "finish"
    /\ UNCHANGED <<matcherVars, configVars, callerVars, collectorVars, taskVars, walker, jobs, jobsClosed,
                   workers, results, resultsClosed, discoveryError, ret, published, consumed,
                   merged, progress, stalls>>

\* for result := range pool.Results() { collector.AddResult(result) }
OrchAddResult ==
    /\ orch = "drain"
    /\ Len(results) > 0
    /\ \E d \in Durations :
          LET v == AddResultValues(CollectorValues(rc, heap), Head(results), d)
          IN  /\ rc' = StoreCollector(rc, v)
              /\ heap' = StoreHeap(rc, heap, v)
    /\ merged' = Append(merged, Head(results).rel)
    /\ results' = Tail(results)
    /\ UNCHANGED <<matcherVars, configVars, callerVars, taskVars, mu, walker, jobs, jobsClosed, workers,
                   resultsClosed, closer, orch, discoveryError, ret, published, consumed,
                   progress, stalls>>

\* the range loop ends: the result channel is closed and drained
OrchDrained ==
    /\ orch = "drain"
    /\ Len(results) = 0
    /\ resultsClosed
    /\ orch' = "waitdone"
    /\ UNCHANGED <<matcherVars, configVars, callerVars, collectorVars, taskVars, walker, jobs, jobsClosed,
                   workers, results, resultsClosed, closer, discoveryError, ret, published,
                   consumed, merged, progress, stalls>>

EmptyConcurrentResult ==
    [CharMap |-> EmptyMap, SequenceMap2 |-> EmptyMap, SequenceMap3 |-> EmptyMap,
     FileCount |-> 0, FilesFound |-> 0, FilesIgnored |-> 0, TotalChars |-> 0,
     UniqueChars |-> 0, UniqueSequences2 |-> 0, UniqueSequences3 |-> 0]

\* the ConcurrentResult built from the snapshot
ConcurrentResult(snap, h) ==
    [CharMap          |-> h[snap.charMap],
     SequenceMap2     |-> h[snap.sequenceMap2],
     SequenceMap3     |-> h[snap.sequenceMap3],
     FileCount        |-> snap.totalFiles,
     FilesFound       |-> snap.filesFound,
     FilesIgnored     |-> snap.filesIgnored,
     TotalChars       |-> snap.totalChars,
     UniqueChars      |-> Cardinality(DOMAIN h[snap.charMap]),
     UniqueSequences2 |-> Cardinality(DOMAIN h[snap.sequenceMap2]),
     UniqueSequences3 |-> Cardinality(DOMAIN h[snap.sequenceMap3])]

\* after <-pool.Done(): the recorded error, or the snapshot of the collector
OrchReturn ==
    /\ orch = "finish"
    /\ orch' = "returned"
    /\ IF discoveryError # NoError
       THEN /\ ret' = [returned |-> TRUE, err |-> discoveryError,
                       result |-> EmptyConcurrentResult]
            /\ UNCHANGED heap
       ELSE LET g == GetResults(rc, heap)
            IN  /\ ret' = [returned |-> TRUE, err |-> NoError,
                           result |-> ConcurrentResult(g.snap, g.heap)]
                /\ heap' = g.heap
    /\ UNCHANGED <<matcherVars, configVars, callerVars, taskVars, rc, mu, walker, jobs, jobsClosed,
                   workers, results, resultsClosed, closer, discoveryError, published,
                   consumed, merged, progress, stalls>>

Next ==
    \/ WalkerRootError
    \/ WalkerDir
    \/ WalkerFound
    \/ WalkerIgnore
    \/ WalkerPublish
    \/ WalkerSend
    \/ WalkerClose
    \/ \E w \in Workers : WorkerRecv(w)
    \/ \E w \in Workers : WorkerSend(w)
    \/ \E w \in Workers : WorkerExit(w)
    \/ CloserClose
    \/ DoneHandshake
    \/ OrchAddResult
    \/ OrchDrained
    \/ OrchReturn

Spec == Init /\ [][Next]_vars

\* the most workers any configuration runs
MaxPool == IF NumCPU > MaxWorkers THEN NumCPU ELSE MaxWorkers

WalkerStep ==
    \/ WalkerRootError \/ WalkerDir \/ WalkerFound \/ WalkerIgnore
    \/ WalkerPublish \/ WalkerSend \/ WalkerClose

WorkerStep(w) ==
    w \in Workers /\ (WorkerRecv(w) \/ WorkerSend(w) \/ WorkerExit(w))

OrchStep == OrchAddResult \/ OrchDrained \/ OrchReturn

\* every tree and every worker count, under the default configuration
FairInit ==
    \E t \in PipelineTrees, n \in WorkerCounts :
        InitPipeline(t, "/root", [asciiOnly |-> TRUE, seq |-> TRUE, dotfiles |-> FALSE], n)

\* the Go scheduler runs every goroutine that stays runnable
FairSpec ==
    /\ FairInit /\ [][Next]_vars
    /\ WF_vars(WalkerStep)
    /\ \A w \in 1..MaxPool : WF_vars(WorkerStep(w))
    /\ WF_vars(CloserClose)
    /\ WF_vars(DoneHandshake)
    /\ WF_vars(OrchStep)

(***************************************************************************)
(* Properties of the pipeline                                              *)
(***************************************************************************)

EntryOf(rel) == tree[CHOOSE i \in 1..Len(tree) : tree[i].rel = rel]

\* merging the results of the given files one by one, in the order given
RECURSIVE SequentialMerge(_, _)
SequentialMerge(rels, v) ==
    IF Len(rels) = 0 THEN v
    ELSE SequentialMerge(Tail(rels),
            AddResultValues(v, processFile(JobOf(EntryOf(Head(rels)), "")), 1))

SequentialTotals == SequentialMerge(published, CollectorValues(NewResultCollector, NewHeap))

\* C1: when the run has returned, the collector's character map, 2-gram map,
\* 3-gram map, file total and character total equal those of merging the
\* published files one by one in walk order, whatever the worker count and
\* the order in which the results were delivered
C1_OrderIndependent ==
    orch = "returned" =>
        LET v == CollectorValues(rc, heap)
            s == SequentialTotals
        IN  /\ v.totalCharMap = s.totalCharMap
            /\ v.totalSequenceMap2 = s.totalSequenceMap2
            /\ v.totalSequenceMap3 = s.totalSequenceMap3
            /\ v.totalFiles = s.totalFiles
            /\ v.totalChars = s.totalChars
            /\ (ret.err = NoError =>
                   /\ ret.result.CharMap = s.totalCharMap
                   /\ ret.result.SequenceMap2 = s.totalSequenceMap2
                   /\ ret.result.SequenceMap3 = s.totalSequenceMap3
                   /\ ret.result.FileCount = s.totalFiles
                   /\ ret.result.TotalChars = s.totalChars)

\* a run of several workers returned after merging results out of walk order
C1_Witness ==
    /\ orch = "returned"
    /\ ret.err = NoError
    /\ EffectiveWorkers(workerCount) >= 2
    /\ Len(merged) >= 3
    /\ merged # published
    /\ Cardinality(DOMAIN heap[rc.totalSequenceMap2]) >= 2

Terminated ==
    /\ walker.pc = "done"
    /\ jobsClosed
    /\ \A w \in Workers : workers[w].pc = "exited"
    /\ resultsClosed
    /\ closer = "finished"
    /\ orch = "returned"
    /\ Len(jobs) = 0
    /\ Len(results) = 0

\* C2: every run terminates: the walker closes the job queue, every worker
\* exits, the result queue is closed, Done is received and the call returns
C2_Terminates == <>Terminated

\* a run configured with no worker count has terminated after the walker had
\* to wait for room in the job queue
C2_Witness ==
    /\ Terminated
    /\ workerCount <= 0
    /\ Cardinality(Workers) >= 1
    /\ stalls >= 1

Holding == Cardinality({w \in Workers : workers[w].pc = "send"})

Occurrences(seq, x) == Cardinality({i \in 1..Len(seq) : seq[i] = x})

\* C3: every published job is received by at most one worker and merged at
\* most once; at every moment each published job is in exactly one place
\* (with the walker, in the job queue, with a worker, in the result queue or
\* merged); when the run has returned every published job has been received
\* once and merged once
C3_ExactlyOnce ==
    /\ \A r \in Rels(tree) :
          /\ consumed[r] <= 1
          /\ Occurrences(merged, r) <= 1
          /\ Occurrences(published, r) <= 1
          /\ consumed[r] + Occurrences(merged, r) >= 1 => Occurrences(published, r) = 1
    /\ Len(published) = (IF walker.pc = "send" THEN 1 ELSE 0) + Len(jobs) + Holding
                            + Len(results) + Len(merged)
    /\ orch = "returned" =>
          /\ Len(merged) = Len(published)
          /\ \A i \in 1..Len(published) :
                consumed[published[i]] = 1 /\ Occurrences(merged, published[i]) = 1

\* a run returned in which the walker had found the job queue full
C3_Witness ==
    /\ orch = "returned"
    /\ stalls >= 1
    /\ Len(published) >= 4
    /\ Len(merged) = Len(published)

\* C4: a run that returned without a recorded walker error has
\* FilesFound - FilesIgnored = FilesProcessed = the number of merged results
C4_FoundIgnoredProcessed ==
    (orch = "returned" /\ ret.err = NoError) =>
        /\ ret.result.FilesFound - ret.result.FilesIgnored = ret.result.FileCount
        /\ ret.result.FileCount = Len(merged)
        /\ rc.filesFound - rc.filesIgnored = rc.totalFiles

\* a run returned without error that found files of which some were ignored
\* and some processed
C4_Witness ==
    /\ orch = "returned"
    /\ ret.err = NoError
    /\ ret.result.FilesIgnored >= 4
    /\ ret.result.FileCount >= 2

\* C5: in every state FilesFound >= FilesIgnored >= 0, the jobs published so
\* far plus FilesIgnored do not exceed FilesFound, and the processed-file
\* total does not exceed FilesFound - FilesIgnored
C5_CountersOrdered ==
    /\ rc.filesIgnored >= 0
    /\ rc.filesFound >= rc.filesIgnored
    /\ Len(published) + rc.filesIgnored <= rc.filesFound
    /\ rc.totalFiles <= rc.filesFound - rc.filesIgnored

\* in the middle of a run: a file found and not yet classified, after files
\* were ignored and jobs published
C5_Witness ==
    /\ walker.pc = "found"
    /\ rc.filesIgnored >= 2
    /\ Len(published) >= 1
    /\ rc.totalFiles >= 1
    /\ Len(published) + rc.filesIgnored < rc.filesFound

(***************************************************************************)
(* The collector under concurrent callers: every call takes rc.mu, and the *)
(* read-modify-write of its body is two steps, so that what the lock       *)
(* protects can be seen                                                    *)
(***************************************************************************)

\* the tasks calling the collector
NTasks == 2

\* the calls the tasks make, all together
MaxCalls == 3

\* the snapshots taken
MaxSnaps == 1

\* the writes callers make into the maps they were handed
MaxMutations == 1

\* the file contents "ab" and "bab"
SampleContents == << <<97, 98>>, <<98, 97, 98>> >>

Samples == 1..Len(SampleContents)

\* the CharCountResult a worker computes for a sample
SampleResult(i) ==
    processFile([Path |-> "", Content |-> SampleContents[i], AsciiOnly |-> TRUE,
                 SequenceConfig |-> [Enabled |-> TRUE], rel |-> ""])

Tasks == 1..NTasks

NoLocal == [n |-> 0]

IdleTask == [pc |-> "idle", op |-> "", arg |-> 0, local |-> NoLocal]

\* the calls made so far: AddResult by sample, the counters, GetResults
NoneSubmitted == [add |-> [i \in Samples |-> 0], found |-> 0, ignored |-> 0, get |-> 0]

\* the key a reader writes into a map it was handed
ReaderKey(field) == IF field = "timing" THEN "Reader" ELSE 0

SnapFields == {"charMap", "sequenceMap2", "sequenceMap3", "timing"}

\* the maps a snapshot refers to, as they are now
SnapMaps(snap, h) ==
    [charMap      |-> h[snap.charMap],
     sequenceMap2 |-> h[snap.sequenceMap2],
     sequenceMap3 |-> h[snap.sequenceMap3],
     timing       |-> h[snap.timing]]

CollectorInit ==
    /\ InitRun(TreeFlat, "/root", [asciiOnly |-> TRUE, seq |-> TRUE, dotfiles |-> FALSE], 1)
    /\ tasks = [t \in Tasks |-> IdleTask]
    /\ snaps = <<>>
    /\ submitted = NoneSubmitted
    /\ InitCaller

RECURSIVE SumSeq(_)
SumSeq(s) == IF Len(s) = 0 THEN 0 ELSE Head(s) + SumSeq(Tail(s))

CallsMade == SumSeq(submitted.add) + submitted.found + submitted.ignored + submitted.get

\* a task calls collector.AddResult(result)
CallAddResult(t, i) ==
    /\ tasks[t].pc = "idle"
    /\ CallsMade < MaxCalls
    /\ tasks' = [tasks EXCEPT ![t].pc = "lock", ![t].op = "AddResult", ![t].arg = i]
    /\ submitted' = [submitted EXCEPT !.add[i] = @ + 1]
    /\ UNCHANGED <<matcherVars, configVars, callerVars, pipeVars, collectorVars, snaps>>

\* a task calls collector.IncrementFound()
CallIncrementFound(t) ==
    /\ tasks[t].pc = "idle"
    /\ CallsMade < MaxCalls
    /\ tasks' = [tasks EXCEPT ![t].pc = "lock", ![t].op = "IncrementFound"]
    /\ submitted' = [submitted EXCEPT !.found = @ + 1]
    /\ UNCHANGED <<matcherVars, configVars, callerVars, pipeVars, collectorVars, snaps>>

\* a task calls collector.IncrementIgnored()
CallIncrementIgnored(t) ==
    /\ tasks[t].pc = "idle"
    /\ CallsMade < MaxCalls
    /\ tasks' = [tasks EXCEPT ![t].pc = "lock", ![t].op = "IncrementIgnored"]
    /\ submitted' = [submitted EXCEPT !.ignored = @ + 1]
    /\ UNCHANGED <<matcherVars, configVars, callerVars, pipeVars, collectorVars, snaps>>

\* a task calls collector.GetResults()
CallGetResults(t) ==
    /\ tasks[t].pc = "idle"
    /\ CallsMade < MaxCalls
    /\ submitted.get < MaxSnaps
    /\ tasks' = [tasks EXCEPT ![t].pc = "lock", ![t].op = "GetResults"]
    /\ submitted' = [submitted EXCEPT !.get = @ + 1]
    /\ UNCHANGED <<matcherVars, configVars, callerVars, pipeVars, collectorVars, snaps>>

\* NoMutualExclusion: a lock that admits a writer whoever holds it
NoMutualExclusion(m) == TRUE

\* rc.mu.Lock() goes through when no writer and no reader holds the lock
CanLock(m) == m.writer = 0 /\ m.readers = {}

\* rc.mu.RLock() goes through when no writer holds the lock
CanRLock(m) == m.writer = 0

Writes(t) == tasks[t].op \in {"AddResult", "IncrementFound", "IncrementIgnored"}

\* the lock is held by another task: the caller is parked
Park(t) ==
    /\ tasks[t].pc = "lock"
    /\ IF Writes(t) THEN ~CanLock(mu) ELSE ~CanRLock(mu)
    /\ tasks' = [tasks EXCEPT ![t].pc = "parked"]
    /\ mu' = [mu EXCEPT !.contended = TRUE]
    /\ UNCHANGED <<matcherVars, configVars, callerVars, pipeVars, rc, heap, snaps, submitted>>

\* rc.mu.Lock()
Lock(t) ==
    /\ tasks[t].pc \in {"lock", "parked"}
    /\ Writes(t)
    /\ CanLock(mu)
    /\ mu' = [mu EXCEPT !.writer = t]
    /\ tasks' = [tasks EXCEPT ![t].pc = "body"]
    /\ UNCHANGED <<matcherVars, configVars, callerVars, pipeVars, rc, heap, snaps, submitted>>

\* defer rc.mu.Unlock()
Unlock(t) ==
    /\ tasks[t].pc = "unlock"
    /\ Writes(t)
    /\ mu' = [mu EXCEPT !.writer = 0]
    /\ tasks' = [tasks EXCEPT ![t] = IdleTask]
    /\ UNCHANGED <<matcherVars, configVars, callerVars, pipeVars, rc, heap, snaps, submitted>>

\* rc.mu.RLock()
RLock(t) ==
    /\ tasks[t].pc \in {"lock", "parked"}
    /\ ~Writes(t)
    /\ CanRLock(mu)
    /\ mu' = [mu EXCEPT !.readers = @ \cup {t}]
    /\ tasks' = [tasks EXCEPT ![t].pc = "body"]
    /\ UNCHANGED <<matcherVars, configVars, callerVars, pipeVars, rc, heap, snaps, submitted>>

\* defer rc.mu.RUnlock()
RUnlock(t) ==
    /\ tasks[t].pc = "unlock"
    /\ ~Writes(t)
    /\ mu' = [mu EXCEPT !.readers = @ \ {t}]
    /\ tasks' = [tasks EXCEPT ![t] = IdleTask]
    /\ UNCHANGED <<matcherVars, configVars, callerVars, pipeVars, rc, heap, snaps, submitted>>

\* AddResult reads the totals it is about to add to
AddResultLoad(t) ==
    /\ tasks[t].pc = "body"
    /\ tasks[t].op = "AddResult"
    /\ tasks' = [tasks EXCEPT ![t].pc = "store", ![t].local = CollectorValues(rc, heap)]
    /\ UNCHANGED <<matcherVars, configVars, callerVars, pipeVars, collectorVars, snaps, submitted>>

\* AddResult writes the sums back
AddResultStore(t) ==
    /\ tasks[t].pc = "store"
    /\ tasks[t].op = "AddResult"
    /\ \E d \in Durations :
          LET v == AddResultValues(tasks[t].local, SampleResult(tasks[t].arg), d)
          IN  /\ rc' = StoreCollector(rc, v)
              /\ heap' = StoreHeap(rc, heap, v)
    /\ tasks' = [tasks EXCEPT ![t].pc = "unlock"]
    /\ UNCHANGED <<matcherVars, configVars, callerVars, pipeVars, mu, snaps, submitted>>

\* rc.filesFound++ and rc.filesIgnored++: the read
IncrementLoad(t) ==
    /\ tasks[t].pc = "body"
    /\ tasks[t].op \in {"IncrementFound", "IncrementIgnored"}
    /\ tasks' = [tasks EXCEPT ![t].pc = "store",
                              ![t].local = [n |-> IF tasks[t].op = "IncrementFound"
                                                  THEN rc.filesFound ELSE rc.filesIgnored]]
    /\ UNCHANGED <<matcherVars, configVars, callerVars, pipeVars, collectorVars, snaps, submitted>>

\* rc.filesFound++ and rc.filesIgnored++: the write
IncrementStore(t) ==
    /\ tasks[t].pc = "store"
    /\ tasks[t].op \in {"IncrementFound", "IncrementIgnored"}
    /\ rc' = IF tasks[t].op = "IncrementFound"
             THEN [rc EXCEPT !.filesFound = tasks[t].local.n + 1]
             ELSE [rc EXCEPT !.filesIgnored = tasks[t].local.n + 1]
    /\ tasks' = [tasks EXCEPT ![t].pc = "unlock"]
    /\ UNCHANGED <<matcherVars, configVars, callerVars, pipeVars, heap, mu, snaps, submitted>>

\* the body of GetResults; the caller keeps what it was handed
GetResultsCopy(t) ==
    /\ tasks[t].pc = "body"
    /\ tasks[t].op = "GetResults"
    /\ LET g == GetResults(rc, heap)
       IN  /\ heap' = g.heap
           /\ snaps' = Append(snaps, [snap    |-> g.snap,
                                      seen    |-> SnapMaps(g.snap, g.heap),
                                      touched |-> {}])
    /\ tasks' = [tasks EXCEPT ![t].pc = "unlock"]
    /\ UNCHANGED <<matcherVars, configVars, callerVars, pipeVars, rc, mu, submitted>>

\* a caller writes into one of the maps GetResults handed it
MutateSnapshot(i, field) ==
    /\ i \in 1..Len(snaps)
    /\ field \notin snaps[i].touched
    /\ SumSeq([s \in 1..Len(snaps) |-> Cardinality(snaps[s].touched)]) < MaxMutations
    /\ heap' = [heap EXCEPT ![snaps[i].snap[field]] = Put(@, ReaderKey(field), 1)]
    /\ snaps' = [snaps EXCEPT ![i].touched = @ \cup {field}]
    /\ UNCHANGED <<matcherVars, configVars, callerVars, pipeVars, rc, mu, tasks, submitted>>

CollectorNext ==
    \/ \E t \in Tasks, i \in Samples : CallAddResult(t, i)
    \/ \E t \in Tasks : CallIncrementFound(t)
    \/ \E t \in Tasks : CallIncrementIgnored(t)
    \/ \E t \in Tasks : CallGetResults(t)
    \/ \E t \in Tasks : Park(t)
    \/ \E t \in Tasks : Lock(t)
    \/ \E t \in Tasks : Unlock(t)
    \/ \E t \in Tasks : RLock(t)
    \/ \E t \in Tasks : RUnlock(t)
    \/ \E t \in Tasks : AddResultLoad(t)
    \/ \E t \in Tasks : AddResultStore(t)
    \/ \E t \in Tasks : IncrementLoad(t)
    \/ \E t \in Tasks : IncrementStore(t)
    \/ \E t \in Tasks : GetResultsCopy(t)
    \/ \E i \in 1..MaxSnaps, field \in SnapFields : MutateSnapshot(i, field)

CollectorSpec == CollectorInit /\ [][CollectorNext]_vars

(***************************************************************************)
(* Properties of the collector                                             *)
(***************************************************************************)

AllReturned == \A t \in Tasks : tasks[t].pc = "idle"

\* the sum over every submitted result of its entry for key k in the map
SubmittedCount(map, k) ==
    SumSeq([i \in Samples |-> submitted.add[i] * Get(SampleResult(i)[map], k)])

SubmittedKeys(map) ==
    UNION {DOMAIN SampleResult(i)[map] : i \in {j \in Samples : submitted.add[j] > 0}}

\* C6: when every call of the concurrent tasks has returned, each entry of
\* the three total maps is the sum of that entry over all submitted results,
\* the file total is the number of AddResult calls, the character total the
\* sum of their CharCount, and the found and ignored counters the numbers
\* of IncrementFound and IncrementIgnored calls
C6_NoLostUpdate ==
    AllReturned =>
        /\ \A k \in SubmittedKeys("CharMap") \cup DOMAIN heap[rc.totalCharMap] :
              Get(heap[rc.totalCharMap], k) = SubmittedCount("CharMap", k)
        /\ \A k \in SubmittedKeys("SequenceMap2") \cup DOMAIN heap[rc.totalSequenceMap2] :
              Get(heap[rc.totalSequenceMap2], k) = SubmittedCount("SequenceMap2", k)
        /\ \A k \in SubmittedKeys("SequenceMap3") \cup DOMAIN heap[rc.totalSequenceMap3] :
              Get(heap[rc.totalSequenceMap3], k) = SubmittedCount("SequenceMap3", k)
        /\ rc.totalFiles = SumSeq(submitted.add)
        /\ rc.totalChars = SumSeq([i \in Samples |-> submitted.add[i] * SampleResult(i).CharCount])
        /\ rc.filesFound = submitted.found
        /\ rc.filesIgnored = submitted.ignored

\* every call has returned, one of them having waited for the lock, after
\* AddResult calls from both tasks and a counter increment
C6_Witness ==
    /\ AllReturned
    /\ mu.contended
    /\ \A i \in Samples : submitted.add[i] >= 1
    /\ rc.totalFiles >= 2
    /\ submitted.found + submitted.ignored >= 1

\* C7: every map GetResults returned is the caller's own: it holds what it
\* held when it was returned until its holder writes into it, whatever
\* AddResult or the holder of another snapshot does later, and nothing a
\* holder writes shows in the collector's maps
C7_IndependentCopies ==
    /\ \A i \in 1..Len(snaps) : \A field \in SnapFields \ snaps[i].touched :
          heap[snaps[i].snap[field]] = snaps[i].seen[field]
    /\ ReaderKey("charMap") \notin DOMAIN heap[rc.totalCharMap]
    /\ ReaderKey("sequenceMap2") \notin DOMAIN heap[rc.totalSequenceMap2]
    /\ ReaderKey("sequenceMap3") \notin DOMAIN heap[rc.totalSequenceMap3]
    /\ ReaderKey("timing") \notin DOMAIN heap[rc.timing]

(***************************************************************************)
(* The rule matcher on its own: directories are loaded and paths asked     *)
(* about in any order, under every spelling of the root                    *)
(***************************************************************************)

\* the rule lines appended to rule files
MaxAdded == 1

\* the scenario of TestHierarchicalGitignore, with one directory more
TreeHierarchy ==
    << DirE("", RulesOf(<<"*.log">>)),
       FileE(".gitignore", <<42, 46, 108, 111, 103, 10>>),
       FileE("app.log", <<108>>),
       FileE("app.tmp", <<116>>),
       DirE("project", RulesOf(<<"*.tmp">>)),
       FileE("project/.gitignore", <<42, 46, 116, 109, 112, 10>>),
       FileE("project/app.go", <<103>>),
       FileE("project/app.log", <<108>>),
       FileE("project/app.tmp", <<116>>),
       DirE("project/src", NoRules),
       FileE("project/src/deep.log", <<108>>) >>

\* the root as an absolute path, a relative path, "." and an un-normalized path
MatcherRoots == {"/root", "root", ".", "./root"}

\* a line that would re-include a path under version control's rules, and an
\* ordinary pattern
RuleLines == {"!app.log", "*.go"}

MatcherInit ==
    \E root \in MatcherRoots :
        InitPipeline(TreeHierarchy, root,
                     [asciiOnly |-> TRUE, seq |-> TRUE, dotfiles |-> FALSE], 1)

Dirs == {i \in 1..Len(tree) : tree[i].kind = "dir"}

\* GitignoreMatcher.LoadGitignoreForDirectory(dirPath), as the walker calls it
LoadGitignoreForDirectory(i) ==
    /\ i \in Dirs
    /\ gm' = loadGitignoreForDir(gm, tree, rootPath, EntryPath(rootPath, tree[i])).gm
    /\ UNCHANGED <<rootPath, tree, includeDotfiles, qpath, qres, added, configVars, callerVars,
                   pipeVars, collectorVars, taskVars>>

\* GitignoreMatcher.ShouldIgnore(path), as the walker calls it
AskShouldIgnore(i) ==
    /\ i \in 2..Len(tree)
    /\ qpath' = EntryPath(rootPath, tree[i])
    /\ qres' = ShouldIgnore(gm, EntryPath(rootPath, tree[i]))
    /\ UNCHANGED <<rootPath, tree, gm, includeDotfiles, added, configVars, callerVars, pipeVars,
                   collectorVars, taskVars>>

\* a line is added to the rule file of a directory, to be read by the next
\* loadGitignoreForDir of that directory
AppendRuleLine(i, line) ==
    /\ i \in Dirs
    /\ added < MaxAdded
    /\ tree' = [tree EXCEPT ![i].rules = RulesOf(Append(@.lines, line))]
    /\ added' = added + 1
    /\ UNCHANGED <<rootPath, gm, includeDotfiles, qpath, qres, configVars, callerVars, pipeVars,
                   collectorVars, taskVars>>

MatcherNext ==
    \/ \E i \in 1..Len(tree) : LoadGitignoreForDirectory(i)
    \/ \E i \in 1..Len(tree) : AskShouldIgnore(i)
    \/ \E i \in 1..Len(tree), line \in RuleLines : AppendRuleLine(i, line)

MatcherSpec == MatcherInit /\ [][MatcherNext]_vars

(***************************************************************************)
(* Properties of the matcher                                               *)
(***************************************************************************)

\* the path of the entry named rel, as the walker spells it
P(rel) == EntryPath(rootPath, EntryOf(rel))

\* directory d is the parent of entry e or one of its ancestors
IsAncestor(d, e) ==
    /\ d.kind = "dir"
    /\ e.rel # d.rel
    /\ (d.rel = "" \/ HasPrefix(e.rel, d.rel \o "/"))

\* the path of entry e made relative to its ancestor d
RelTo(d, e) == IF d.rel = "" THEN e.rel ELSE CutPrefix(e.rel, d.rel \o "/")

\* the rule lists loaded for directory d, under whatever spelling of its path
LoadedRules(d) ==
    {gm.matchers[k] : k \in {x \in DOMAIN gm.matchers : Clean(x) = Clean(EntryPath(rootPath, d))}}

\* some ancestor of entry e has loaded a rule matching e's path relative to it
AncestorRuleMatches(e) ==
    \E i \in 1..Len(tree) :
        /\ IsAncestor(tree[i], e)
        /\ \E rules \in LoadedRules(tree[i]) :
              \E j \in 1..Len(rules) : matchesPattern(RelTo(tree[i], e), rules[j])

ScenarioLoaded ==
    /\ added = 0
    /\ LoadedRules(EntryOf("")) # {}
    /\ LoadedRules(EntryOf("project")) # {}

\* C8: with *.log in the root's rule file and *.tmp in project's, both
\* loaded, app.log, project/app.log and project/app.tmp are ignored and
\* project/app.go and app.tmp are kept; a rule loaded from a directory
\* applies to every path under that directory and to no path outside it
C8_HierarchicalPrecedence ==
    ScenarioLoaded =>
        /\ ShouldIgnore(gm, P("app.log"))
        /\ ShouldIgnore(gm, P("project/app.log"))
        /\ ShouldIgnore(gm, P("project/app.tmp"))
        /\ ~ShouldIgnore(gm, P("project/app.go"))
        /\ ~ShouldIgnore(gm, P("app.tmp"))
        /\ \A i \in 2..Len(tree) :
              ShouldIgnore(gm, EntryPath(rootPath, tree[i])) <=> AncestorRuleMatches(tree[i])

\* C9: whatever the spelling of the root, a path is ignored when an ancestor
\* directory, from its parent up to the root, has loaded a rule that matches
\* the path made relative to that ancestor
C9_AncestorRulesApply ==
    \A i \in 2..Len(tree) :
        AncestorRuleMatches(tree[i]) => ShouldIgnore(gm, EntryPath(rootPath, tree[i]))

\* C10: no step of the matcher, be it loading the rules of a directory or
\* loading a rule file to which a line was added, turns the decision for any
\* path from ignored to kept
C10_PureOr ==
    [][gm' # gm =>
          \A i \in 2..Len(tree) :
              ShouldIgnore(gm, EntryPath(rootPath, tree[i]))
                  => ShouldIgnore(gm', EntryPath(rootPath, tree[i]))]_vars

\* the line !app.log has been added to the rule file of app.log's directory
\* and loaded, and app.log, ignored when asked about, is ignored still
C10_Witness ==
    /\ added >= 1
    /\ qres
    /\ ShouldIgnore(gm, qpath)
    /\ Base(qpath) = "app.log"
    /\ Dir(qpath) \in DOMAIN gm.matchers
    /\ \E j \in 1..Len(gm.matchers[Dir(qpath)]) : gm.matchers[Dir(qpath)][j] = "!app.log"

(***************************************************************************)
(* The ignore policies called directly: Matcher.ShouldIgnore on the paths  *)
(* of a tree, with the rules of any of its directories loaded or not, and  *)
(* matchesPattern on relative paths and rule lines                         *)
(***************************************************************************)

\* dot-named files and directories, a denied extension, rules that match
\* dot-named and other files, a nested rule file
TreeIgnore ==
    << DirE("", RulesOf(<<"*.log", ".env">>)),
       FileE(".env", <<107>>),
       DirE(".git", NoRules),
       FileE(".git/config", <<99>>),
       FileE(".gitignore", <<42, 46, 108, 111, 103, 10, 46, 101, 110, 118, 10>>),
       FileE(".keep", <<>>),
       FileE("a.txt", <<97>>),
       FileE("app.log", <<108>>),
       FileE("pic.svg", <<60>>),
       DirE("sub", RulesOf(<<"*.tmp">>)),
       FileE("sub/.gitignore", <<42, 46, 116, 109, 112, 10>>),
       FileE("sub/.hidden", <<104>>),
       FileE("sub/x.tmp", <<120>>),
       FileE("sub/y.txt", <<121>>) >>

\* the paths of TestMatchesPattern and paths that hold a name inside a longer segment
ProbePaths ==
    {"test.log", "src/test.log", "test.txt", "node_modules/package.json", "node_modules",
     "src/node_modules/test.js", "src/test.js", "deep/src/test.js", "build/output.txt",
     "src/build/output.txt", "rebuild.txt", "build", "src/build", "rebuild/output.txt",
     "my_node_modules/test.js"}

\* the rule lines of TestMatchesPattern and their anchored and directory forms
ProbePatterns ==
    {"*.log", "node_modules/", "/src/*.js", "build", "build/", "/build/", "/build",
     "src/build/", "src/*.js", "/*.js", "b?ild", "/output.txt"}

IgnoreInit ==
    \E root \in PipelineRoots, cfg \in PipelineConfigs : InitPipeline(TreeIgnore, root, cfg, 1)

\* m.ShouldIgnore(path) for a path of the tree
CallShouldIgnore(i) ==
    /\ i \in 2..Len(tree)
    /\ probe' = [op |-> "ShouldIgnore", path |-> EntryPath(rootPath, tree[i]), gm |-> gm,
                 out |-> MatcherShouldIgnore(gm, includeDotfiles, EntryPath(rootPath, tree[i]))]
    /\ UNCHANGED <<matcherVars, configVars, pipeVars, collectorVars, taskVars, analysis, tui>>

\* m.matchesPattern(relPath, pattern)
CallMatchesPattern(relPath, pattern) ==
    /\ probe' = [op |-> "matchesPattern", relPath |-> relPath, pattern |-> pattern,
                 out |-> matchesPattern(relPath, pattern)]
    /\ UNCHANGED <<matcherVars, configVars, pipeVars, collectorVars, taskVars, analysis, tui>>

IgnoreNext ==
    \/ \E i \in 1..Len(tree) : LoadGitignoreForDirectory(i)
    \/ \E i \in 1..Len(tree) : CallShouldIgnore(i)
    \/ \E relPath \in ProbePaths, pattern \in ProbePatterns : CallMatchesPattern(relPath, pattern)

IgnoreSpec == IgnoreInit /\ [][IgnoreNext]_vars

\* the last element of a path begins with '.' and is neither "." nor ".."
DotNamed(path) ==
    LET parts == Split(path)
        name  == parts[Len(parts)]
    IN  Len(name) >= 1 /\ CharAt(name, 1) = "." /\ name # "." /\ name # ".."

\* C11: Matcher.ShouldIgnore is true iff the path ends in a denied extension,
\* or dotfiles are disabled and the path is dot-named, or the rule cascade
\* matches; with dotfiles disabled a dot-named path is excluded whatever the
\* rules, with dotfiles enabled only by the other two policies
C11_ThreePolicies ==
    probe.op = "ShouldIgnore" =>
        /\ probe.out <=> \/ HasSuffix(probe.path, ".svg")
                         \/ (~includeDotfiles /\ DotNamed(probe.path))
                         \/ ShouldIgnore(probe.gm, probe.path)
        /\ (~includeDotfiles /\ DotNamed(probe.path)) => probe.out
        /\ (includeDotfiles /\ DotNamed(probe.path)) =>
              (probe.out <=> \/ HasSuffix(probe.path, ".svg")
                             \/ ShouldIgnore(probe.gm, probe.path))

\* with dotfiles disabled and rules loaded, a dot-named path that no rule
\* matches was excluded
C11_Witness ==
    /\ probe.op = "ShouldIgnore"
    /\ ~includeDotfiles
    /\ DotNamed(probe.path)
    /\ DOMAIN probe.gm.matchers # {}
    /\ ~ShouldIgnore(probe.gm, probe.path)
    /\ probe.out

\* the pattern without its leading and its trailing '/'
Bare(pattern) ==
    LET front == IF HasPrefix(pattern, "/") THEN SubSeq(pattern, 2, Len(pattern)) ELSE pattern
    IN  IF HasSuffix(front, "/") THEN SubSeq(front, 1, Len(front) - 1) ELSE front

\* the first k segments of a path, and its segments from the k-th on
LeadingSegments(relPath, k) == Join(SubSeq(Split(relPath), 1, k))

TrailingSegments(relPath, k) == Join(SubSeq(Split(relPath), k, Len(Split(relPath))))

\* the name stands in the path as a run of whole segments
NamedIn(relPath, name) ==
    \E i \in 1..Len(Split(relPath)) : \E j \in i..Len(Split(relPath)) :
        Join(SubSeq(Split(relPath), i, j)) = name

\* C12: a rule whose pattern ends in '/' matches the path that names the
\* directory and every path underneath it, also when the pattern begins with
\* '/'; it matches a path holding the name as a whole segment; it matches no
\* path that holds the name only inside a longer segment
C12_DirectoryRule ==
    (probe.op = "matchesPattern" /\ HasSuffix(probe.pattern, "/")) =>
        /\ (\/ probe.relPath = Bare(probe.pattern)
            \/ HasPrefix(probe.relPath, Bare(probe.pattern) \o "/")) => probe.out
        /\ (/\ ~HasPrefix(probe.pattern, "/")
            /\ \E i \in 1..Len(Split(probe.relPath)) :
                  Split(probe.relPath)[i] = Bare(probe.pattern)) => probe.out
        /\ ~NamedIn(probe.relPath, Bare(probe.pattern)) => ~probe.out

\* C13: a rule whose pattern starts with '/' matches only a path of which
\* the whole or the first k segments glob-match the pattern without the
\* slash; /src/*.js matches src/test.js and not deep/src/test.js
C13_AnchoredRule ==
    (probe.op = "matchesPattern" /\ HasPrefix(probe.pattern, "/")) =>
        /\ probe.out =>
              \E k \in 1..Len(Split(probe.relPath)) :
                  Match(SubSeq(probe.pattern, 2, Len(probe.pattern)),
                        LeadingSegments(probe.relPath, k))
        /\ (probe.pattern = "/src/*.js" /\ probe.relPath = "src/test.js") => probe.out
        /\ (probe.pattern = "/src/*.js" /\ probe.relPath = "deep/src/test.js") => ~probe.out

\* an anchored pattern was tested against a path of which a trailing suffix,
\* and no leading prefix, matches it: no match
C13_Witness ==
    /\ probe.op = "matchesPattern"
    /\ HasPrefix(probe.pattern, "/")
    /\ \E k \in 2..Len(Split(probe.relPath)) :
          Match(SubSeq(probe.pattern, 2, Len(probe.pattern)), TrailingSegments(probe.relPath, k))
    /\ ~probe.out

\* C14: a rule with neither a leading nor a trailing '/' matches a path iff
\* it glob-matches one whole segment (the base name is the last) or a run of
\* whole trailing segments (the full path is the longest); build matches
\* build/output.txt and src/build/output.txt and not rebuild.txt, *.log
\* matches src/test.log and not test.txt
C14_PlainRule ==
    (/\ probe.op = "matchesPattern"
     /\ ~HasPrefix(probe.pattern, "/")
     /\ ~HasSuffix(probe.pattern, "/")) =>
        /\ probe.out <=>
              \E k \in 1..Len(Split(probe.relPath)) :
                  \/ Match(probe.pattern, Split(probe.relPath)[k])
                  \/ Match(probe.pattern, TrailingSegments(probe.relPath, k))
        /\ (probe.pattern = "build"
               /\ probe.relPath \in {"build/output.txt", "src/build/output.txt"}) => probe.out
        /\ (probe.pattern = "build" /\ probe.relPath = "rebuild.txt") => ~probe.out
        /\ (probe.pattern = "*.log" /\ probe.relPath = "src/test.log") => probe.out
        /\ (probe.pattern = "*.log" /\ probe.relPath = "test.txt") => ~probe.out

\* a plain pattern was tested against a path that holds it inside a longer
\* segment only: no match
C14_Witness ==
    /\ probe.op = "matchesPattern"
    /\ probe.pattern = "build"
    /\ probe.relPath = "rebuild/output.txt"
    /\ ~probe.out

(***************************************************************************)
(* AnalyzeSymbols: the matcher is built, WalkDirectoryConcurrent runs, and *)
(* its result is turned into the sorted lists. A sequence and a character  *)
(* string are written as the tuple of their bytes.                         *)
(***************************************************************************)

\* the largest occurrence threshold and the largest top-N cap of a run
MaxThreshold == 2

MaxTopN == 1

Thresholds == 1..MaxThreshold

\* 0: no cap
TopNs == 0..MaxTopN

\* a rule file that exists and cannot be opened
BadRules == [present |-> TRUE, status |-> "openerr", lines |-> <<>>]

\* two directories that cannot be read, before a readable file
TreeTwoErrors ==
    << DirE("", NoRules),
       FileE("a.txt", <<97, 97>>),
       UnreadableDirE("closed"),
       UnreadableDirE("locked"),
       FileE("z.txt", <<122, 122>>) >>

\* the rule file of the root cannot be read
TreeBadRootRules ==
    << DirE("", BadRules),
       UnreadableFileE(".gitignore"),
       FileE("a.txt", <<97, 97>>) >>

\* the rule file of a nested directory cannot be read
TreeBadNestedRules ==
    << DirE("", NoRules),
       FileE("a.txt", <<97, 97>>),
       DirE("sub", BadRules),
       UnreadableFileE("sub/.gitignore"),
       FileE("sub/s.txt", <<115, 115>>) >>

\* one file in which three sequences occur twice and one once
TreeRepeats ==
    << DirE("", NoRules),
       FileE("r.txt", <<97, 98, 97, 98, 97>>) >>

\* a file holding U+00E3 (0xC3 0xA3) and U+3042 (0xE3 0x81 0x82) next to a
\* plain one
TreeAccents ==
    << DirE("", NoRules),
       FileE("n.txt", <<195, 163, 227, 129, 130>>),
       FileE("p.txt", <<97, 97>>) >>

AnalyzeTrees ==
    {TreeEndToEnd, TreeFlat, TreeMixed, TreeRepeats, TreeAccents, TreeMissingRoot,
     TreeTwoErrors, TreeBadRootRules, TreeBadNestedRules}

\* --ascii-only on and off, sequences counted, dotfiles left out
AnalyzeConfigs ==
    { [asciiOnly |-> TRUE,  seq |-> TRUE, dotfiles |-> FALSE],
      [asciiOnly |-> FALSE, seq |-> TRUE, dotfiles |-> FALSE] }

\* tree, directory argument, --workers and flags of a run: every tree under
\* a plain root with one worker; one with the default pool, one with the
\* largest pool, one with --include-dotfiles, and one under a root whose own
\* name starts with a dot
AnalyzeRuns ==
    {<<t, "/root", 1, cfg>> : t \in AnalyzeTrees, cfg \in AnalyzeConfigs}
        \cup {<<TreeRepeats, "/root", 0, cfg>> : cfg \in AnalyzeConfigs}
        \cup { <<TreeAccents, "/root", MaxWorkers,
                 [asciiOnly |-> FALSE, seq |-> TRUE, dotfiles |-> FALSE]>>,
               <<TreeEndToEnd, "/root", 1,
                 [asciiOnly |-> FALSE, seq |-> TRUE, dotfiles |-> TRUE]>>,
               <<TreeMixed, "/root/.cfg", 1,
                 [asciiOnly |-> TRUE, seq |-> TRUE, dotfiles |-> FALSE]>> }

\* NewTimingMatcher failed: AnalyzeSymbols starts no pool, collector or walker
InitNotStarted(t, root, cfg, n) ==
    /\ tree = t
    /\ rootPath = root
    /\ gm = NewGitignoreMatcher(t, root).gm
    /\ includeDotfiles = cfg.dotfiles
    /\ qpath = ""
    /\ qres = FALSE
    /\ added = 0
    /\ workerCount = n
    /\ asciiOnly = cfg.asciiOnly
    /\ sequenceConfig = [Enabled |-> cfg.seq]
    /\ walker = [idx |-> 1, pc |-> "notstarted", job |-> NoJob]
    /\ jobs = <<>>
    /\ jobsClosed = FALSE
    /\ workers = [w \in 1..EffectiveWorkers(n) |->
                     [pc |-> "notstarted", result |-> NoResult, fileCount |-> 0]]
    /\ results = <<>>
    /\ resultsClosed = FALSE
    /\ closer = "notstarted"
    /\ orch = "notstarted"
    /\ discoveryError = NoError
    /\ ret = NoRet
    /\ rc = NewResultCollector
    /\ heap = NewHeap
    /\ mu = MuFree
    /\ published = <<>>
    /\ consumed = [r \in Rels(t) |-> 0]
    /\ merged = <<>>
    /\ progress = <<>>
    /\ stalls = 0

\* the state when NewTimingMatcher has returned
AnalyzeInit ==
    \E run \in AnalyzeRuns, th \in Thresholds, topN \in TopNs :
        /\ IF NewGitignoreMatcher(run[1], run[2]).err
           THEN InitNotStarted(run[1], run[2], run[4], run[3])
           ELSE InitRun(run[1], run[2], run[4], run[3])
        /\ tasks = <<>>
        /\ snaps = <<>>
        /\ submitted = <<>>
        /\ probe = NoProbe
        /\ tui = NoTui
        /\ analysis = [pc |-> IF NewGitignoreMatcher(run[1], run[2]).err
                              THEN "matcherErr" ELSE "walking",
                       Threshold |-> th, topNSeq |-> topN]

\* domain.AnalysisResult{}
EmptyAnalysisResult ==
    [CharCounts |-> <<>>, SequenceCounts |-> <<>>, FilesFound |-> 0, FilesIgnored |-> 0,
     TotalChars |-> 0, UniqueChars |-> 0, UniqueSequences |-> 0]

\* range over the keys of one packed map: sequenceMap[seq] = int(count)
RECURSIVE CombineFrom(_, _, _, _)
CombineFrom(keys, packed, width, acc) ==
    IF keys = {} THEN acc
    ELSE LET k == CHOOSE x \in keys : TRUE
         IN  CombineFrom(keys \ {k}, packed, width,
                         Put(acc, IF width = 2 THEN Unpack2(k) ELSE Unpack3(k), packed[k]))

\* the 2-gram and 3-gram maps unpacked into one map from sequence to count
SequenceMap(result) ==
    CombineFrom(DOMAIN result.SequenceMap3, result.SequenceMap3, 3,
                CombineFrom(DOMAIN result.SequenceMap2, result.SequenceMap2, 2, EmptyMap))

\* string(char) for a rune below 256: one byte, or the two bytes of its UTF-8 form
RuneString(r) == IF r < 128 THEN <<r>> ELSE <<192 + (r \div 64), 128 + (r % 64)>>

\* the order of Go strings: byte by byte, a prefix before the longer string
RECURSIVE StringLess(_, _)
StringLess(a, b) ==
    IF Len(b) = 0 THEN FALSE
    ELSE IF Len(a) = 0 THEN TRUE
    ELSE IF Head(a) # Head(b) THEN Head(a) < Head(b)
    ELSE StringLess(Tail(a), Tail(b))

\* CountLessFirstByte: entries of equal count compared by their first byte only
CountLessFirstByte(x, y) ==
    IF x.Count # y.Count THEN x.Count > y.Count ELSE x.Text[1] < y.Text[1]

\* CharCounts.Less and SequenceCounts.Less: more frequent first, then by text
CountLess(x, y) ==
    IF x.Count # y.Count THEN x.Count > y.Count ELSE StringLess(x.Text, y.Text)

\* sort.Sort on the entries appended while ranging over a map, entry[k] for
\* every key k: the map is ranged over in any order and the sort is not
\* stable, so every arrangement in which no entry is Less than an earlier
\* one can come out; the set of these lists
RECURSIVE SortCounts(_, _)
SortCounts(keys, entry) ==
    IF keys = {} THEN {<<>>}
    ELSE UNION { {<<entry[k]>> \o rest : rest \in SortCounts(keys \ {k}, entry)} :
                 k \in {x \in keys : \A y \in keys : ~CountLess(entry[y], entry[x])} }

SumOf(map) == SumSeq([i \in 1..Cardinality(DOMAIN map) |->
                        map[CHOOSE k \in DOMAIN map :
                                Cardinality({x \in DOMAIN map : StringLess(x, k)}) = i - 1]])

\* the character list: every key of the character map, lower-cased, sorted;
\* the lists the sort can leave
CharCounts(result) ==
    SortCounts(DOMAIN result.CharMap,
               [char \in DOMAIN result.CharMap |->
                   [Text |-> ToLower(RuneString(char)), Count |-> result.CharMap[char],
                    Percentage |-> <<result.CharMap[char] * 100, result.TotalChars>>]])

\* SequenceCountsAbove: only the sequences counted more often than the threshold
SequenceCountsAbove(result, threshold, topNSeq) ==
    LET sequenceMap == SequenceMap(result)
        totalSequences == SumOf(sequenceMap)
        kept == {sequence \in DOMAIN sequenceMap : sequenceMap[sequence] > threshold}
        sequenceCounts ==
            SortCounts(kept, [sequence \in kept |->
                                 [Text |-> sequence, Count |-> sequenceMap[sequence],
                                  Percentage |-> <<sequenceMap[sequence] * 100, totalSequences>>]])
    IN  { IF topNSeq > 0 /\ Len(sorted) > topNSeq THEN SubSeq(sorted, 1, topNSeq) ELSE sorted :
            sorted \in sequenceCounts }

\* SequenceCountsCutBeforeSort: the list is cut to top N as the map was
\* ranged over, and sorted afterwards
SequenceCountsCutBeforeSort(result, threshold, topNSeq) ==
    LET sequenceMap == SequenceMap(result)
        totalSequences == SumOf(sequenceMap)
        kept == {sequence \in DOMAIN sequenceMap : sequenceMap[sequence] >= threshold}
        cuts == IF topNSeq > 0 /\ Cardinality(kept) > topNSeq
                THEN {some \in SUBSET kept : Cardinality(some) = topNSeq}
                ELSE {kept}
    IN  UNION { SortCounts(some, [sequence \in some |->
                                     [Text |-> sequence, Count |-> sequenceMap[sequence],
                                      Percentage |-> <<sequenceMap[sequence] * 100,
                                                       totalSequences>>]]) :
                some \in cuts }

\* the sequence list: the sequences that reach the threshold, sorted, cut to
\* top N; the lists the sort can leave
SequenceCounts(result, threshold, topNSeq) ==
    LET sequenceMap == SequenceMap(result)
        totalSequences == SumOf(sequenceMap)
        kept == {sequence \in DOMAIN sequenceMap : sequenceMap[sequence] >= threshold}
        sequenceCounts ==
            SortCounts(kept, [sequence \in kept |->
                                 [Text |-> sequence, Count |-> sequenceMap[sequence],
                                  Percentage |-> <<sequenceMap[sequence] * 100, totalSequences>>]])
    IN  { IF topNSeq > 0 /\ Len(sorted) > topNSeq THEN SubSeq(sorted, 1, topNSeq) ELSE sorted :
            sorted \in sequenceCounts }

\* the domain.AnalysisResult built from the ConcurrentResult: one record for
\* every pair of lists the two sorts can leave
AnalysisResult(result, threshold, topNSeq) ==
    { [CharCounts      |-> counts,
       SequenceCounts  |-> sequenceCounts,
       FilesFound      |-> result.FilesFound,
       FilesIgnored    |-> result.FilesIgnored,
       TotalChars      |-> result.TotalChars,
       UniqueChars     |-> Cardinality(DOMAIN result.CharMap),
       UniqueSequences |-> Cardinality(DOMAIN SequenceMap(result))] :
      counts \in CharCounts(result),
      sequenceCounts \in SequenceCounts(result, threshold, topNSeq) }

\* return domain.AnalysisResult{}, fmt.Errorf("could not load gitignore: %w", err)
AnalyzeFail ==
    /\ analysis.pc = "matcherErr"
    /\ analysis' = [pc |-> "returned", Threshold |-> analysis.Threshold,
                    topNSeq |-> analysis.topNSeq, err |-> "could not load gitignore",
                    result |-> EmptyAnalysisResult]
    /\ UNCHANGED <<matcherVars, configVars, pipeVars, collectorVars, taskVars, probe, tui>>

\* AnalyzeReturnPartial: the error of WalkDirectoryConcurrent is not looked at
\* and the lists are built from what the collector holds
AnalyzeReturnPartial ==
    /\ analysis.pc = "walking"
    /\ orch = "returned"
    /\ \E built \in AnalysisResult(ConcurrentResult(GetResults(rc, heap).snap,
                                                      GetResults(rc, heap).heap),
                                     analysis.Threshold, analysis.topNSeq) :
          analysis' = [pc |-> "returned", Threshold |-> analysis.Threshold,
                       topNSeq |-> analysis.topNSeq, err |-> NoError, result |-> built]
    /\ UNCHANGED <<matcherVars, configVars, pipeVars, collectorVars, taskVars, probe, tui>>

\* WalkDirectoryConcurrent has returned: its error wrapped, or the lists
AnalyzeReturn ==
    /\ analysis.pc = "walking"
    /\ orch = "returned"
    /\ \E built \in IF ret.err # NoError THEN {EmptyAnalysisResult}
                     ELSE AnalysisResult(ret.result, analysis.Threshold, analysis.topNSeq) :
          analysis' = [pc |-> "returned", Threshold |-> analysis.Threshold,
                       topNSeq |-> analysis.topNSeq,
                       err |-> IF ret.err # NoError
                               THEN "error processing files: " \o ret.err ELSE NoError,
                       result |-> built]
    /\ UNCHANGED <<matcherVars, configVars, pipeVars, collectorVars, taskVars, probe, tui>>

AnalyzeNext ==
    \/ Next
    \/ AnalyzeFail
    \/ AnalyzeReturn

AnalyzeSpec == AnalyzeInit /\ [][AnalyzeNext]_vars

(***************************************************************************)
(* Properties of AnalyzeSymbols                                            *)
(***************************************************************************)

\* the walk callback is called with an error for this entry
Failing(e) == e.kind = "missing" \/ (e.kind = "dir" /\ ~e.readable)

\* the error filepath.WalkDir reports for an entry
ErrorOf(e) ==
    (IF e.kind = "missing" THEN "lstat " ELSE "readdir ") \o EntryPath(rootPath, e)

\* no directory above the entry is pruned or unreadable, so the walk reaches it
Reached(i) ==
    \A j \in 2..Len(tree) :
        IsAncestor(tree[j], tree[i]) =>
            /\ tree[j].readable
            /\ ~MatcherShouldIgnore(gm, includeDotfiles, EntryPath(rootPath, tree[j]))

FailingEntries == {i \in 1..Len(tree) : Failing(tree[i]) /\ Reached(i)}

ReachedFiles == {i \in 1..Len(tree) : tree[i].kind \in {"file", "special"} /\ Reached(i)}

\* C15: a traversal error does not stop the walk, which visits the entries
\* that remain and closes the job queue; the error recorded is that of the
\* first failing entry, whatever is reported later; when the walk and the
\* workers have finished, WalkDirectoryConcurrent returns that error with an
\* empty result, and AnalyzeSymbols an error and no lists
C15_FirstErrorWins ==
    /\ discoveryError # NoError =>
          /\ FailingEntries # {}
          /\ discoveryError = ErrorOf(tree[Min(FailingEntries)])
    /\ (walker.pc = "done" /\ FailingEntries # {}) =>
          /\ jobsClosed
          /\ discoveryError # NoError
          /\ rc.filesFound = Cardinality(ReachedFiles)
    /\ (orch = "returned" /\ FailingEntries # {}) =>
          /\ walker.pc = "done"
          /\ \A w \in Workers : workers[w].pc = "exited"
          /\ ret.err = ErrorOf(tree[Min(FailingEntries)])
          /\ ret.result = EmptyConcurrentResult
    /\ (analysis.pc = "returned" /\ FailingEntries # {}) =>
          /\ analysis.err # NoError
          /\ analysis.result = EmptyAnalysisResult

\* two directories failed, files before and after them were merged, and the
\* run returned the first error
C15_Witness ==
    /\ analysis.pc = "returned"
    /\ Cardinality(FailingEntries) >= 2
    /\ Len(merged) >= 2
    /\ \E i \in 1..Len(merged) : EntryOf(merged[i]).rel = "z.txt"
    /\ ret.err = ErrorOf(tree[Min(FailingEntries)])

BadRuleFiles ==
    {i \in 1..Len(tree) : tree[i].kind = "dir" /\ tree[i].rules.status = "openerr" /\ Reached(i)}

\* C16: a run over a tree in which the rule file of some directory, the
\* root or a nested one, exists and cannot be read ends in an error and
\* without results
C16_BadRuleFileAborts ==
    (analysis.pc = "returned" /\ BadRuleFiles # {}) =>
        /\ analysis.err # NoError
        /\ analysis.result = EmptyAnalysisResult

\* C17: when the root cannot be walked, AnalyzeSymbols returns an error and
\* no lists, nothing was published or merged, the job queue is closed, the
\* workers have exited and the result queue is closed and empty
C17_BadRootFails ==
    (analysis.pc = "returned" /\ tree[1].kind = "missing") =>
        /\ analysis.err # NoError
        /\ analysis.result.CharCounts = <<>>
        /\ analysis.result.SequenceCounts = <<>>
        /\ analysis.result = EmptyAnalysisResult
        /\ published = <<>>
        /\ merged = <<>>
        /\ rc.totalFiles = 0
        /\ Terminated

\* a run on a root that does not exist has returned
C17_Witness ==
    /\ analysis.pc = "returned"
    /\ tree[1].kind = "missing"
    /\ walker.pc = "done"
    /\ discoveryError # NoError

\* the bytes a counted sequence can be made of
SequenceBytes == {0} \cup DOMAIN heap[rc.totalCharMap]

CandidateSequences ==
    {<<a, b>> : a \in SequenceBytes, b \in SequenceBytes}
        \cup {<<a, b, c>> : a \in SequenceBytes, b \in SequenceBytes, c \in SequenceBytes}

\* how often the collector counted the sequence over all files
GlobalCount(sequence) ==
    IF Len(sequence) = 2
    THEN Get(heap[rc.totalSequenceMap2], Pack2(sequence[1], sequence[2]))
    ELSE Get(heap[rc.totalSequenceMap3], Pack3(sequence[1], sequence[2], sequence[3]))

Qualifying == {sequence \in CandidateSequences : GlobalCount(sequence) >= analysis.Threshold}

Listed(sequence) ==
    {i \in 1..Len(analysis.result.SequenceCounts) :
        analysis.result.SequenceCounts[i].Text = sequence}

\* C18 as stated: a sequence is in the final list iff its global count
\* reaches the threshold, and then it is there once
C18_ThresholdFilter ==
    (analysis.pc = "returned" /\ analysis.err = NoError) =>
        \A sequence \in CandidateSequences :
            /\ Listed(sequence) # {} <=> GlobalCount(sequence) >= analysis.Threshold
            /\ Cardinality(Listed(sequence)) <= 1

\* C18: every sequence of the final list has a global count that reaches
\* the threshold, carries that count and is listed once; the list holds all
\* such sequences when no top-N cap is set or no more than N qualify, and N
\* of them otherwise
C18_ThresholdThenCap ==
    (analysis.pc = "returned" /\ analysis.err = NoError) =>
        /\ \A i \in 1..Len(analysis.result.SequenceCounts) :
              LET entry == analysis.result.SequenceCounts[i]
              IN  /\ entry.Text \in Qualifying
                  /\ entry.Count = GlobalCount(entry.Text)
                  /\ Listed(entry.Text) = {i}
        /\ Len(analysis.result.SequenceCounts) =
              IF analysis.topNSeq > 0 /\ Cardinality(Qualifying) > analysis.topNSeq
              THEN analysis.topNSeq
              ELSE Cardinality(Qualifying)

\* a run returned one sequence under a cap of one, when several reach the
\* threshold and others do not
C18_Witness ==
    /\ analysis.pc = "returned"
    /\ analysis.err = NoError
    /\ analysis.topNSeq = 1
    /\ analysis.Threshold = 2
    /\ Cardinality(Qualifying) >= 2
    /\ Len(analysis.result.SequenceCounts) = 1
    /\ \E sequence \in CandidateSequences :
          GlobalCount(sequence) >= 1 /\ sequence \notin Qualifying

\* C20: with ASCII-only enabled no character of the final character list
\* and no byte of a sequence of the final sequence list is above 127
C20_AsciiOnlyOutput ==
    (analysis.pc = "returned" /\ asciiOnly) =>
        /\ \A i \in 1..Len(analysis.result.CharCounts) :
              \A j \in 1..Len(analysis.result.CharCounts[i].Text) :
                  analysis.result.CharCounts[i].Text[j] <= 127
        /\ \A i \in 1..Len(analysis.result.SequenceCounts) :
              \A j \in 1..Len(analysis.result.SequenceCounts[i].Text) :
                  analysis.result.SequenceCounts[i].Text[j] <= 127

\* an ASCII-only run returned lists after merging a file that holds a
\* two-byte character
C20_Witness ==
    /\ analysis.pc = "returned"
    /\ analysis.err = NoError
    /\ asciiOnly
    /\ \E i \in 1..Len(merged) : \E j \in 1..Len(EntryOf(merged[i]).content) :
          EntryOf(merged[i]).content[j] > 127
    /\ Len(analysis.result.CharCounts) >= 1
    /\ Len(analysis.result.SequenceCounts) >= 1

\* the walk of the tree from entry i on its own, one entry after the other:
\* the files published in walk order, the counters and the error recorded
RECURSIVE WalkAlone(_, _, _)
WalkAlone(i, g, acc) ==
    IF i > Len(tree) THEN acc
    ELSE LET e    == tree[i]
             path == EntryPath(rootPath, e)
             load == loadGitignoreForDir(g, tree, rootPath, path)
         IN  IF e.kind = "missing"
             THEN WalkAlone(i + 1, g, [acc EXCEPT !.err = RecordError(@, ErrorOf(e))])
             ELSE IF e.kind = "dir"
             THEN IF path # rootPath /\ MatcherShouldIgnore(load.gm, includeDotfiles, path)
                  THEN WalkAlone(SkipTo(i), load.gm, acc)
                  ELSE IF ~e.readable
                  THEN WalkAlone(SkipTo(i), load.gm,
                                 [acc EXCEPT !.err = RecordError(@, ErrorOf(e))])
                  ELSE WalkAlone(i + 1, load.gm, acc)
             ELSE IF \/ e.kind = "special"
                     \/ MatcherShouldIgnore(g, includeDotfiles, path)
                     \/ ~e.readable
                     \/ ~Utf8Valid(e.content)
             THEN WalkAlone(i + 1, g, [acc EXCEPT !.found = @ + 1, !.ignored = @ + 1])
             ELSE WalkAlone(i + 1, g, [acc EXCEPT !.found = @ + 1,
                                                  !.rels = Append(@, e.rel)])

\* what a run of one goroutine over the tree and the configuration returns:
\* the files merged one by one in walk order, and one of the lists the
\* sorts can leave
RunAlone ==
    IF NewGitignoreMatcher(tree, rootPath).err
    THEN [err |-> "could not load gitignore", result |-> EmptyAnalysisResult]
    ELSE LET walk == WalkAlone(1, NewGitignoreMatcher(tree, rootPath).gm,
                               [rels |-> <<>>, found |-> 0, ignored |-> 0, err |-> NoError])
             v    == SequentialMerge(walk.rels, CollectorValues(NewResultCollector, NewHeap))
         IN  IF walk.err # NoError
             THEN [err |-> "error processing files: " \o walk.err,
                   result |-> EmptyAnalysisResult]
             ELSE [err |-> NoError,
                   result |-> CHOOSE built \in
                                 AnalysisResult(
                                    [CharMap |-> v.totalCharMap,
                                     SequenceMap2 |-> v.totalSequenceMap2,
                                     SequenceMap3 |-> v.totalSequenceMap3,
                                     FileCount |-> v.totalFiles,
                                     FilesFound |-> walk.found,
                                     FilesIgnored |-> walk.ignored,
                                     TotalChars |-> v.totalChars],
                                    analysis.Threshold, analysis.topNSeq) : TRUE]

\* C21: the character list and the sequence list a run returns are those of
\* the tree and the configuration alone, entry by entry and in the same
\* order: whatever the number of workers, the order in which walker, workers
\* and drainer took their steps, the order in which the maps were ranged
\* over and the arrangement the sort left, the lists equal those of a run of
\* one goroutine over the same tree; two runs over the same tree with the
\* same configuration therefore return identical lists
C21_Deterministic ==
    analysis.pc = "returned" =>
        /\ analysis.err = RunAlone.err
        /\ analysis.result.CharCounts = RunAlone.result.CharCounts
        /\ analysis.result.SequenceCounts = RunAlone.result.SequenceCounts

\* a run of two workers returned lists after merging results out of walk
\* order, the character list holding two entries that the comparison does
\* not order
C21_Witness ==
    /\ analysis.pc = "returned"
    /\ analysis.err = NoError
    /\ EffectiveWorkers(workerCount) >= 2
    /\ merged # published
    /\ Len(analysis.result.SequenceCounts) >= 1
    /\ \E i \in 1..Len(analysis.result.CharCounts) :
          \E j \in 1..Len(analysis.result.CharCounts) :
             /\ i # j
             /\ ~CountLess(analysis.result.CharCounts[i], analysis.result.CharCounts[j])
             /\ ~CountLess(analysis.result.CharCounts[j], analysis.result.CharCounts[i])

\* a run over a.txt = "aaa", b.txt = "bb" and the rule file excluding b.txt
\* has returned
EndToEndReturned == analysis.pc = "returned" /\ tree = TreeEndToEnd

\* the texts and counts of a list, in order
TextsAndCounts(list) == [i \in 1..Len(list) |-> <<list[i].Text, list[i].Count>>]

\* the entry's percentage is n: count * 100 / total = n
PercentageIs(entry, n) == entry.Percentage[1] = n * entry.Percentage[2]

StrictlyOrdered(list) ==
    \A i \in 1..(Len(list) - 1) :
        \/ list[i].Count > list[i + 1].Count
        \/ /\ list[i].Count = list[i + 1].Count
           /\ StringLess(list[i].Text, list[i + 1].Text)

\* C23: the character list and the sequence list a run returns are sorted
\* by descending count, entries of equal count by ascending text: of every
\* two adjacent entries the first has the strictly greater count, or the
\* same count and the strictly smaller text
C23_SortedLists ==
    (analysis.pc = "returned" /\ analysis.err = NoError) =>
        /\ StrictlyOrdered(analysis.result.CharCounts)
        /\ StrictlyOrdered(analysis.result.SequenceCounts)

\* C24: under a top-N cap N > 0 the sequence list is the first
\* min(N, number of sequences that reach the threshold) entries of the
\* filtered and sorted list: it has that length, it is sorted, its entries
\* reach the threshold and carry their global counts, and every sequence
\* that reaches the threshold and is left out ranks after every entry kept
C24_TopNAfterFilter ==
    (analysis.pc = "returned" /\ analysis.err = NoError /\ analysis.topNSeq > 0) =>
        LET list == analysis.result.SequenceCounts
        IN  /\ Len(list) = Min({analysis.topNSeq, Cardinality(Qualifying)})
            /\ StrictlyOrdered(list)
            /\ \A i \in 1..Len(list) :
                  /\ list[i].Text \in Qualifying
                  /\ list[i].Count = GlobalCount(list[i].Text)
            /\ \A dropped \in Qualifying :
                  Listed(dropped) = {} =>
                      \A i \in 1..Len(list) :
                          CountLess(list[i], [Text |-> dropped, Count |-> GlobalCount(dropped)])

\* a run under a cap of one returned the first of several sequences that
\* reach the threshold of one, some of them counted less often than it
C24_Witness ==
    /\ analysis.pc = "returned"
    /\ analysis.err = NoError
    /\ analysis.topNSeq = 1
    /\ analysis.Threshold = 1
    /\ Len(analysis.result.SequenceCounts) = 1
    /\ Cardinality(Qualifying) >= 3
    /\ \E dropped \in Qualifying :
          GlobalCount(dropped) < analysis.result.SequenceCounts[1].Count
    /\ \E dropped \in Qualifying :
          /\ Listed(dropped) = {}
          /\ GlobalCount(dropped) = analysis.result.SequenceCounts[1].Count

(***************************************************************************)
(* The packed keys on their own: processFile's packing followed by         *)
(* AnalyzeSymbols's unpacking, for bytes chosen freely                     *)
(***************************************************************************)

\* how many of the sample bytes take part in the triples
NByteSamples == 5

Bytes == 0..255

ByteTable == <<0, 255, 128, 127, 1, 97, 65, 200>>

ByteSamples == {ByteTable[i] : i \in 1..Min({NByteSamples, Len(ByteTable)})}

PackInit ==
    InitPipeline(TreeFlat, "/root", [asciiOnly |-> TRUE, seq |-> TRUE, dotfiles |-> FALSE], 0)

\* k2 := uint16(b1)<<8 | uint16(b2), and later []byte{byte(k2 >> 8), byte(k2)}
CallPack2(b1, b2) ==
    /\ probe.op = "none"
    /\ probe' = [op |-> "pack2", bytes |-> <<b1, b2>>, key |-> Pack2(b1, b2),
                 back |-> Unpack2(Pack2(b1, b2))]
    /\ UNCHANGED <<matcherVars, configVars, pipeVars, collectorVars, taskVars, analysis, tui>>

\* k3 := uint32(b0)<<16 | uint32(b1)<<8 | uint32(b2), and later
\* []byte{byte(k3 >> 16), byte(k3 >> 8), byte(k3)}
CallPack3(b0, b1, b2) ==
    /\ probe.op = "none"
    /\ probe' = [op |-> "pack3", bytes |-> <<b0, b1, b2>>, key |-> Pack3(b0, b1, b2),
                 back |-> Unpack3(Pack3(b0, b1, b2))]
    /\ UNCHANGED <<matcherVars, configVars, pipeVars, collectorVars, taskVars, analysis, tui>>

\* the keys of two triples and of their last two bytes
CallPackTwice(x, y) ==
    /\ probe.op = "none"
    /\ probe' = [op |-> "packTwice", x |-> x, y |-> y,
                 key2 |-> <<Pack2(x[2], x[3]), Pack2(y[2], y[3])>>,
                 key3 |-> <<Pack3(x[1], x[2], x[3]), Pack3(y[1], y[2], y[3])>>]
    /\ UNCHANGED <<matcherVars, configVars, pipeVars, collectorVars, taskVars, analysis, tui>>

\* one call in a behaviour
PackNext ==
    \/ probe.op = "none" /\ \E b1 \in Bytes, b2 \in Bytes : CallPack2(b1, b2)
    \/ probe.op = "none" /\ \E b0 \in Bytes, b1 \in ByteSamples, b2 \in ByteSamples :
                                CallPack3(b0, b1, b2)
    \/ probe.op = "none" /\ \E x \in ByteSamples \X ByteSamples \X ByteSamples,
                                y \in ByteSamples \X ByteSamples \X ByteSamples :
                                CallPackTwice(x, y)

PackSpec == PackInit /\ [][PackNext]_vars

\* C19: unpacking the key of a byte pair gives back the pair, unpacking the
\* key of a byte triple gives back the triple, and different pairs and
\* different triples have different keys
C19_PackingRoundTrip ==
    /\ probe.op \in {"pack2", "pack3"} => probe.back = probe.bytes
    /\ probe.op = "pack2" => probe.key \in 0..65535
    /\ probe.op = "pack3" => probe.key \in 0..16777215
    /\ probe.op = "packTwice" =>
          /\ probe.x # probe.y => probe.key3[1] # probe.key3[2]
          /\ SubSeq(probe.x, 2, 3) # SubSeq(probe.y, 2, 3) => probe.key2[1] # probe.key2[2]

\* the pair of the largest byte and a byte with only the top bit set came
\* back from its key
C19_Witness ==
    /\ probe.op = "pack2"
    /\ probe.bytes = <<255, 128>>
    /\ probe.key = 65408
    /\ probe.back = <<255, 128>>

(***************************************************************************)
(* processFile on its own, for contents chosen freely among the valid      *)
(* UTF-8 texts over a few bytes                                            *)
(***************************************************************************)

\* the longest content
MaxContentLen == 3

\* a control byte, space, ':', 'A', 'a', '{', and the two bytes of U+00E9
ContentBytes == {1, 32, 58, 65, 97, 123, 195, 169}

\* the contents DiscoverFiles hands over: valid UTF-8
Contents ==
    {c \in UNION {[1..n -> ContentBytes] : n \in 0..MaxContentLen} : Utf8Valid(c)}

ScanInit ==
    InitPipeline(TreeFlat, "/root", [asciiOnly |-> TRUE, seq |-> TRUE, dotfiles |-> FALSE], 0)

\* result := wp.processFile(job, id)
CallProcessFile(content, ascii, enabled) ==
    LET job == [Path |-> "f", Content |-> content, AsciiOnly |-> ascii,
                SequenceConfig |-> [Enabled |-> enabled], rel |-> "f"]
    IN  /\ probe' = [op |-> "processFile", job |-> job, content |-> ToLower(content),
                     out |-> processFile(job)]
        /\ UNCHANGED <<matcherVars, configVars, pipeVars, collectorVars, taskVars, analysis, tui>>

\* one call in a behaviour
ScanNext ==
    probe.op = "none" /\ \E content \in Contents, ascii \in BOOLEAN, enabled \in BOOLEAN :
                            CallProcessFile(content, ascii, enabled)

ScanSpec == ScanInit /\ [][ScanNext]_vars

\* processFile was called with sequence extraction enabled
Scanned == probe.op = "processFile" /\ probe.job.SequenceConfig.Enabled

\* the byte at position i (1-based) of the lower-cased content is counted
CountedAt(i) ==
    /\ IsGraphic(probe.content[i]) \/ IsSpace(probe.content[i])
    /\ ~(probe.job.AsciiOnly /\ probe.content[i] > 127)

\* the bytes sequence occurs in the lower-cased content at positions from .. from + Len - 1
OccursAt(sequence, from) ==
    /\ from >= 1
    /\ from + Len(sequence) - 1 <= Len(probe.content)
    /\ SubSeq(probe.content, from, from + Len(sequence) - 1) = sequence

\* C25: the 2-gram counted at a position is the pair of the byte before it
\* and the byte at it, the 3-gram the triple ending at it, of the lower-cased
\* content: each 2-gram (3-gram) is counted as often as it ends at a counted
\* position from the second (third) on, and so every n-gram counted is a
\* contiguous part of the content, also when the content holds bytes that
\* are not counted
C25_ContiguousWindows ==
    Scanned =>
        /\ \A k2 \in DOMAIN probe.out.SequenceMap2 :
              /\ \E from \in 1..Len(probe.content) : OccursAt(Unpack2(k2), from)
              /\ probe.out.SequenceMap2[k2] =
                    Cardinality({i \in 2..Len(probe.content) :
                                    CountedAt(i) /\ OccursAt(Unpack2(k2), i - 1)})
        /\ \A k3 \in DOMAIN probe.out.SequenceMap3 :
              /\ \E from \in 1..Len(probe.content) : OccursAt(Unpack3(k3), from)
              /\ probe.out.SequenceMap3[k3] =
                    Cardinality({i \in 3..Len(probe.content) :
                                    CountedAt(i) /\ OccursAt(Unpack3(k3), i - 2)})
        /\ \A i \in 2..Len(probe.content) :
              CountedAt(i) =>
                  Pack2(probe.content[i - 1], probe.content[i]) \in DOMAIN probe.out.SequenceMap2
        /\ \A i \in 3..Len(probe.content) :
              CountedAt(i) =>
                  Pack3(probe.content[i - 2], probe.content[i - 1], probe.content[i])
                      \in DOMAIN probe.out.SequenceMap3

\* C27: processFile returns a result with FileCount 1 for every content; for
\* the empty content the character map and both sequence maps are empty and
\* CharCount is 0; for a content of one byte no 2-gram and no 3-gram is
\* counted
C27_EveryJobYieldsAResult ==
    probe.op = "processFile" =>
        /\ probe.out.FileCount = 1
        /\ probe.out.CharCount \in 0..Len(probe.job.Content)
        /\ Len(probe.job.Content) = 0 =>
              /\ probe.out.CharMap = EmptyMap
              /\ probe.out.SequenceMap2 = EmptyMap
              /\ probe.out.SequenceMap3 = EmptyMap
              /\ probe.out.CharCount = 0
        /\ Len(probe.job.Content) = 1 =>
              /\ probe.out.SequenceMap2 = EmptyMap
              /\ probe.out.SequenceMap3 = EmptyMap

\* processFile returned the result of an empty file
C27_Witness ==
    /\ probe.op = "processFile"
    /\ probe.job.Content = <<>>
    /\ probe.job.SequenceConfig.Enabled
    /\ probe.out.FileCount = 1
    /\ probe.out.CharCount = 0

\* the code points of a UTF-8 text of one-, two- and three-byte characters
RECURSIVE CodePoints(_)
CodePoints(bytes) ==
    IF Len(bytes) = 0 THEN <<>>
    ELSE IF bytes[1] < 128 THEN <<bytes[1]>> \o CodePoints(Tail(bytes))
    ELSE IF bytes[1] < 224
         THEN <<(bytes[1] - 192) * 64 + (bytes[2] - 128)>>
                 \o CodePoints(SubSeq(bytes, 3, Len(bytes)))
    ELSE <<(bytes[1] - 224) * 4096 + (bytes[2] - 128) * 64 + (bytes[3] - 128)>>
            \o CodePoints(SubSeq(bytes, 4, Len(bytes)))

\* C28: with ASCII-only disabled the character map is keyed by the code
\* points of the lower-cased content: every counted character, a multi-byte
\* one too, adds one to the entry of its own code point, and CharCount is
\* the number of counted characters, not of bytes
C28_KeyedByCodePoint ==
    (probe.op = "processFile" /\ ~probe.job.AsciiOnly) =>
        LET points  == CodePoints(probe.content)
            counted == {i \in 1..Len(points) : IsGraphic(points[i]) \/ IsSpace(points[i])}
        IN  /\ DOMAIN probe.out.CharMap = {points[i] : i \in counted}
            /\ \A r \in DOMAIN probe.out.CharMap :
                  probe.out.CharMap[r] = Cardinality({i \in counted : points[i] = r})
            /\ probe.out.CharCount = Cardinality(counted)

\* C29: no sequence counted holds a whitespace byte, and two characters
\* that only whitespace separates are counted as a 2-gram: the content
\* ": {" yields the sequence ":{"
C29_WhitespaceSkipped ==
    Scanned =>
        /\ \A k2 \in DOMAIN probe.out.SequenceMap2 :
              \A i \in 1..2 : ~IsSpace(Unpack2(k2)[i])
        /\ \A k3 \in DOMAIN probe.out.SequenceMap3 :
              \A i \in 1..3 : ~IsSpace(Unpack3(k3)[i])
        /\ probe.content = <<58, 32, 123>> =>
              Pack2(58, 123) \in DOMAIN probe.out.SequenceMap2
(***************************************************************************)
(* Further properties of the pipeline                                      *)
(***************************************************************************)

\* the sum of the values of a map
RECURSIVE MapTotal(_)
MapTotal(map) ==
    IF DOMAIN map = {} THEN 0
    ELSE LET k == CHOOSE x \in DOMAIN map : TRUE
         IN  map[k] + MapTotal([x \in DOMAIN map \ {k} |-> map[x]])

\* C26: between two calls of AddResult the collector's character total is
\* the sum of CharCount over the results merged and the sum of the values of
\* its character map, and the CharCount of every result a worker made is the
\* sum of the values of that result's character map
C26_CharTotal ==
    /\ rc.totalChars =
          SumSeq([i \in 1..Len(merged) |->
                     processFile(JobOf(EntryOf(merged[i]), "")).CharCount])
    /\ rc.totalChars = MapTotal(heap[rc.totalCharMap])
    /\ \A i \in 1..Len(results) : results[i].CharCount = MapTotal(results[i].CharMap)
    /\ \A w \in Workers :
          workers[w].pc = "send" =>
              workers[w].result.CharCount = MapTotal(workers[w].result.CharMap)

\* two results were merged, one of them of a file that holds bytes which
\* are not counted
C26_Witness ==
    /\ Len(merged) >= 2
    /\ rc.totalChars >= 3
    /\ rc.totalChars = MapTotal(heap[rc.totalCharMap])
    /\ \E i \in 1..Len(merged) :
          processFile(JobOf(EntryOf(merged[i]), "")).CharCount
              < Len(EntryOf(merged[i]).content)

\* the directories other than the root that the walker has passed and for
\* which ShouldIgnore is true
IgnoredDirs ==
    {i \in 2..Min({walker.idx - 1, Len(tree)}) :
        /\ tree[i].kind = "dir"
        /\ MatcherShouldIgnore(gm, includeDotfiles, EntryPath(rootPath, tree[i]))}

\* the entries below one of the directories
Below(dirs) == {j \in 1..Len(tree) : \E i \in dirs : IsAncestor(tree[i], tree[j])}

\* the directories other than the root that cannot be read
ClosedDirs == {i \in 2..Len(tree) : tree[i].kind = "dir" /\ ~tree[i].readable}

\* C30: the rule file of every directory the walker has visited is loaded,
\* that of a directory it pruned too; the walker never visits an entry below
\* a directory other than the root for which ShouldIgnore is true, no file
\* below one is published, and when the walk is over the files found are
\* exactly the files not below a pruned or unreadable directory: those
\* below the root are among them whatever the root is called
C30_PrunedSubtrees ==
    With(IgnoredDirs, LAMBDA ignored :
    With(Below(ignored), LAMBDA hidden :
        /\ \A i \in 1..Min({walker.idx - 1, Len(tree)}) :
              (/\ tree[i].kind = "dir"
               /\ i \notin hidden \cup Below(ClosedDirs)
               /\ tree[i].rules.present /\ tree[i].rules.status = "ok"
               /\ Len(ParsePatterns(tree[i].rules.lines)) > 0)
                 => EntryPath(rootPath, tree[i]) \in DOMAIN gm.matchers
        /\ walker.idx \notin hidden
        /\ \A i \in 1..Len(published) : \A j \in hidden : tree[j].rel # published[i]
        /\ (walker.pc = "done" /\ tree[1].kind = "dir") =>
              rc.filesFound =
                 Cardinality({j \in 1..Len(tree) :
                                 /\ tree[j].kind \in {"file", "special"}
                                 /\ j \notin hidden \cup Below(ClosedDirs)})))

\* the walk of a tree under a root with a dot-name, dotfiles left out, is
\* over: the root was entered, a directory with a rule file of its own was
\* pruned after its rules were loaded, and files were published
C30_Witness ==
    /\ walker.pc = "done"
    /\ ~includeDotfiles
    /\ MatcherShouldIgnore(gm, includeDotfiles, rootPath)
    /\ \E i \in IgnoredDirs :
          /\ EntryPath(rootPath, tree[i]) \in DOMAIN gm.matchers
          /\ \E j \in Below({i}) : tree[j].kind = "file"
    /\ Len(published) >= 1
    /\ rc.filesFound >= 3

\* the walker has returned from DiscoverFiles
WalkerReturned == walker.pc = "done"

\* C31: the job queue is closed by the step in which the walker returns, and
\* by no other step, so it is closed once; from then on the walker takes no
\* step, nothing is published and nothing is added to the job queue; a worker
\* leaves its loop only when the queue is closed and empty; and in every
\* run, with or without a walker error, the queue is closed in the end
C31_JobQueueClosedOnce ==
    /\ [](jobsClosed <=> WalkerReturned)
    /\ [][/\ jobsClosed =>
                /\ jobsClosed'
                /\ walker' = walker
                /\ published' = published
                /\ Len(jobs') <= Len(jobs)
          /\ (~jobsClosed /\ jobsClosed') =>
                /\ walker.pc = "walk"
                /\ walker.idx > Len(tree)
                /\ jobs' = jobs
          /\ \A w \in Workers :
                (workers[w].pc # "exited" /\ workers'[w].pc = "exited") =>
                    jobsClosed /\ Len(jobs) = 0]_vars
    /\ <>jobsClosed

\* a walk that recorded an error is over: the queue is closed, jobs are still
\* waiting in it and no worker has left its loop
C31_Witness ==
    /\ jobsClosed
    /\ discoveryError # NoError
    /\ Len(published) >= 1
    /\ Len(jobs) >= 1
    /\ \A w \in Workers : workers[w].pc # "exited"

\* the contents that were read and whose result is not yet in the result
\* queue: the one the walker is sending, those in the job queue, those with
\* a worker
InFlight == (IF walker.pc = "send" THEN 1 ELSE 0) + Len(jobs) + Holding

\* C32: with N effective workers neither queue ever holds more than 2N
\* items, at most 3N + 1 contents are read and not yet handed to the result
\* queue, and while the walker waits for room in a full job queue it visits
\* no further entry, finds no further file and publishes nothing
C32_Backpressure ==
    /\ [](With(EffectiveWorkers(workerCount), LAMBDA N :
             /\ Len(jobs) <= 2 * N
             /\ Len(results) <= 2 * N
             /\ Holding <= N
             /\ InFlight <= 3 * N + 1))
    /\ [][(walker.pc = "send" /\ Len(jobs) >= 2 * EffectiveWorkers(workerCount)) =>
             /\ walker' = walker
             /\ rc'.filesFound = rc.filesFound
             /\ published' = published
             /\ Len(jobs') <= Len(jobs)]_vars

\* the job queue of a run with one worker is full, the worker holds a result
\* and the walker waits with a job it cannot send: four contents are held
C32_Witness ==
    /\ EffectiveWorkers(workerCount) = 1
    /\ walker.pc = "send"
    /\ Len(jobs) = 2
    /\ Holding = 1
    /\ InFlight = 4

\* C33: the progress callback has been invoked once per file found so far,
\* the k-th invocation with filesFound = k; when the run has returned no
\* invocation was passed a filesProcessed above the number of found files
\* that were not ignored, and the last invocation was passed the final
\* FilesFound and FilesProcessed
C33_ProgressCumulative ==
    /\ Len(progress) = rc.filesFound
    /\ \A k \in 1..Len(progress) : progress[k][1] = k
    /\ orch = "returned" =>
          /\ \A k \in 1..Len(progress) :
                progress[k][2] <= rc.filesFound - rc.filesIgnored
          /\ Len(progress) > 0 =>
                progress[Len(progress)] = <<rc.filesFound, rc.totalFiles>>

(***************************************************************************)
(* The terminal interface: Model.Update on the event loop, the command     *)
(* startAnalysis and the analysis task it spawns.  The analysis is         *)
(* AnalyzeSymbols seen from its caller: it invokes the progress callback   *)
(* once per file found, with the arguments the walker passes, and returns  *)
(* a result or an error.  A listener command that has received from its    *)
(* channel hands the message to Update in the same step.                   *)
(***************************************************************************)

\* the most key presses of a session
MaxKeys == 1

\* make(chan progressMsg, 10)
ProgressSlots == 10

\* make(chan analysisCompleteMsg, 1)
DoneSlots == 1

\* the analysed directories, per file found whether it ends up ignored: one
\* of two files and one of more files than the progress channel has slots
TuiDirectories ==
    { <<FALSE, TRUE>>, [i \in 1..(ProgressSlots + 1) |-> i = 2] }

progressMsg(filesFound, filesProcessed) ==
    [filesFound |-> filesFound, filesProcessed |-> filesProcessed]

\* result: FilesFound of the AnalysisResult
analysisCompleteMsg(err, found) == [err |-> err, result |-> found]

\* NewModel
NewModel ==
    [loading |-> TRUE, ready |-> FALSE, err |-> FALSE, filesFound |-> 0,
     filesProcessed |-> 0, progressChan |-> 0, result |-> 0]

\* NewModelFromJSON
NewModelFromJSON ==
    [loading |-> FALSE, ready |-> TRUE, err |-> FALSE, filesFound |-> 0,
     filesProcessed |-> 0, progressChan |-> 0, result |-> 0]

\* tea.NewProgram(model) and Model.Init: the first analysis is requested
\* unless the model is ready
NewProgram(model, dir) ==
    [m          |-> model,
     dir        |-> dir,
     quit       |-> FALSE,
     keys       |-> 0,
     starts     |-> IF model.ready THEN 0 ELSE 1,
     runs       |-> <<>>,
     listenProgress   |-> <<>>,
     listenCompletion |-> <<>>,
     started    |-> {}]

TuiInit ==
    /\ InitRun(TreeFlat, "/root", [asciiOnly |-> TRUE, seq |-> TRUE, dotfiles |-> FALSE], 0)
    /\ tasks = <<>>
    /\ snaps = <<>>
    /\ submitted = <<>>
    /\ analysis = NoAnalysis
    /\ probe = NoProbe
    /\ \E model \in {NewModel, NewModelFromJSON}, dir \in TuiDirectories :
          tui = NewProgram(model, dir)

TuiUnchanged == UNCHANGED <<matcherVars, configVars, pipeVars, collectorVars, taskVars,
                            analysis, probe>>

Runs == 1..Len(tui.runs)

\* a progress channel is garbage when its analysis has made its last call,
\* no command listens on it and none will: listenForProgress is issued for
\* the channel of an analysisStartedMsg, and for the channel the Model holds
\* when a progressMsg comes in, which takes a listener.  What a garbage
\* channel holds is never received
Collected(t) ==
    [t EXCEPT !.runs =
        [i \in 1..Len(t.runs) |->
            IF /\ t.runs[i].pc # "analyze"
               /\ t.listenProgress[i] = 0
               /\ i \notin t.started
               /\ \/ t.m.progressChan # i
                  \/ \A j \in 1..Len(t.runs) : t.listenProgress[j] = 0
            THEN [t.runs[i] EXCEPT !.progressChan = <<>>]
            ELSE t.runs[i]]]

\* the command startAnalysis: the channels are made, the analysis task is
\* spawned and analysisStartedMsg is returned to the event loop
startAnalysis ==
    /\ tui.starts > 0
    /\ \E fails \in BOOLEAN :
          tui' = [tui EXCEPT
                    !.starts = @ - 1,
                    !.runs = Append(@, [pc |-> "analyze", next |-> 1, fails |-> fails,
                                        calls |-> IF fails THEN 0 ELSE Len(tui.dir),
                                        progressChan |-> <<>>, doneChan |-> <<>>]),
                    !.listenProgress = Append(@, 0),
                    !.listenCompletion = Append(@, 0),
                    !.started = @ \cup {Len(tui.runs) + 1}]
    /\ TuiUnchanged

\* the files among the first k that are ignored
IgnoredAmong(dir, k) == Cardinality({j \in 1..k : dir[j]})

\* progressFuncBlocking: progressChan <- progressMsg{...} without a default
progressFuncBlocking(i) ==
    /\ i \in Runs
    /\ tui.runs[i].pc = "analyze"
    /\ tui.runs[i].next <= tui.runs[i].calls
    /\ Len(tui.runs[i].progressChan) < ProgressSlots
    /\ LET k == tui.runs[i].next
       IN  tui' = [tui EXCEPT
                     !.runs[i].next = k + 1,
                     !.runs[i].progressChan =
                         Append(@, progressMsg(k, k - IgnoredAmong(tui.dir, k - 1)))]
    /\ TuiUnchanged

\* the walker of the analysis finds its next file and invokes progressFunc:
\* select { case progressChan <- progressMsg{...}: default: }
progressFunc(i) ==
    /\ i \in Runs
    /\ tui.runs[i].pc = "analyze"
    /\ tui.runs[i].next <= tui.runs[i].calls
    /\ LET k == tui.runs[i].next
       IN  IF Len(tui.runs[i].progressChan) < ProgressSlots
           THEN tui' = [tui EXCEPT
                          !.runs[i].next = k + 1,
                          !.runs[i].progressChan =
                              Append(@, progressMsg(k, k - IgnoredAmong(tui.dir, k - 1)))]
           ELSE tui' = [tui EXCEPT !.runs[i].next = k + 1]
    /\ TuiUnchanged

\* AnalyzeSymbols has returned: doneChan <- analysisCompleteMsg{result, err},
\* and on the way out defer close(doneChan) and defer close(progressChan)
SendComplete(i) ==
    /\ i \in Runs
    /\ tui.runs[i].pc = "analyze"
    /\ tui.runs[i].next > tui.runs[i].calls
    /\ Len(tui.runs[i].doneChan) < DoneSlots
    /\ tui' = Collected([tui EXCEPT
                 !.runs[i].pc = "terminated",
                 !.runs[i].doneChan =
                     Append(@, analysisCompleteMsg(tui.runs[i].fails,
                                                   IF tui.runs[i].fails THEN 0
                                                   ELSE tui.runs[i].calls))])
    /\ TuiUnchanged

\* Update, case analysisStartedMsg
UpdateStarted(i) ==
    /\ ~tui.quit
    /\ i \in tui.started
    /\ tui' = Collected([tui EXCEPT
                           !.started = @ \ {i},
                           !.m.progressChan = i,
                           !.listenProgress[i] = @ + 1,
                           !.listenCompletion[i] = @ + 1])
    /\ TuiUnchanged

\* listenForProgress has received a message; Update, case progressMsg
UpdateProgress(i) ==
    /\ ~tui.quit
    /\ i \in Runs
    /\ tui.listenProgress[i] > 0
    /\ Len(tui.runs[i].progressChan) > 0
    /\ LET msg  == Head(tui.runs[i].progressChan)
           recv == [tui EXCEPT !.listenProgress[i] = @ - 1,
                               !.runs[i].progressChan = Tail(@)]
       IN  IF tui.m.loading /\ msg.filesFound > 0
           THEN tui' = Collected([recv EXCEPT
                                    !.m.filesFound = msg.filesFound,
                                    !.m.filesProcessed = msg.filesProcessed,
                                    !.listenProgress =
                                        IF tui.m.progressChan = 0 THEN @
                                        ELSE [@ EXCEPT ![tui.m.progressChan] = @ + 1]])
           ELSE tui' = Collected(recv)
    /\ TuiUnchanged

\* listenForProgress finds its channel closed and empty and returns nil,
\* which the event loop passes over
ProgressClosed(i) ==
    /\ i \in Runs
    /\ tui.listenProgress[i] > 0
    /\ Len(tui.runs[i].progressChan) = 0
    /\ tui.runs[i].pc = "terminated"
    /\ tui' = Collected([tui EXCEPT !.listenProgress[i] = @ - 1])
    /\ TuiUnchanged

\* listenForCompletion has received the message, or the zero message of a
\* closed and empty channel; Update, case analysisCompleteMsg
UpdateComplete(i) ==
    /\ ~tui.quit
    /\ i \in Runs
    /\ tui.listenCompletion[i] > 0
    /\ Len(tui.runs[i].doneChan) > 0 \/ tui.runs[i].pc = "terminated"
    /\ LET msg  == IF Len(tui.runs[i].doneChan) > 0 THEN Head(tui.runs[i].doneChan)
                   ELSE analysisCompleteMsg(FALSE, 0)
           recv == [tui EXCEPT !.listenCompletion[i] = @ - 1,
                               !.runs[i].doneChan =
                                   IF Len(@) > 0 THEN Tail(@) ELSE @,
                               !.m.loading = FALSE]
       IN  IF msg.err
           THEN tui' = Collected([recv EXCEPT !.m.err = TRUE])
           ELSE tui' = Collected([recv EXCEPT !.m.result = msg.result, !.m.ready = TRUE])
    /\ TuiUnchanged

\* KeyRefreshAlways: case "r" without the test of m.ready
KeyRefreshAlways ==
    /\ ~tui.quit
    /\ tui.keys < MaxKeys
    /\ tui' = [tui EXCEPT
                 !.keys = @ + 1,
                 !.m.loading = TRUE,
                 !.m.ready = FALSE,
                 !.starts = @ + 1]
    /\ TuiUnchanged

\* Update, case tea.KeyMsg "r"
KeyRefresh ==
    /\ ~tui.quit
    /\ tui.keys < MaxKeys
    /\ IF tui.m.ready
       THEN tui' = [tui EXCEPT
                      !.keys = @ + 1,
                      !.m.loading = TRUE,
                      !.m.ready = FALSE,
                      !.starts = @ + 1]
       ELSE tui' = [tui EXCEPT !.keys = @ + 1]
    /\ TuiUnchanged

\* Update, case tea.KeyMsg "q", "ctrl+c", "esc": tea.Quit ends the event
\* loop, and no listener command delivers a message any more
KeyQuit ==
    /\ ~tui.quit
    /\ tui.keys < MaxKeys
    /\ tui' = [tui EXCEPT !.keys = @ + 1, !.quit = TRUE]
    /\ TuiUnchanged

AnalysisStep(i) == progressFunc(i) \/ SendComplete(i)

TuiNext ==
    \/ startAnalysis
    \/ \E i \in Runs : progressFunc(i)
    \/ \E i \in Runs : SendComplete(i)
    \/ \E i \in Runs : UpdateStarted(i)
    \/ \E i \in Runs : UpdateProgress(i)
    \/ \E i \in Runs : ProgressClosed(i)
    \/ \E i \in Runs : UpdateComplete(i)
    \/ KeyRefresh
    \/ KeyQuit

\* the event loop and the user may stop at any time
TuiSpec == TuiInit /\ [][TuiNext]_vars

\* the most analyses a session starts
MaxRuns == MaxKeys + 1

\* the scheduler runs the command startAnalysis and every analysis task;
\* nothing is assumed of the event loop, the listeners or the user
TuiFairSpec ==
    /\ TuiInit /\ [][TuiNext]_vars
    /\ WF_vars(startAnalysis)
    /\ \A i \in 1..MaxRuns : WF_vars(AnalysisStep(i))

\* every analysis requested has been started and has ended
AllAnalysesOver ==
    /\ tui.starts = 0
    /\ \A i \in Runs : tui.runs[i].pc = "terminated"

\* C34: whenever the walker of an analysis is about to invoke the progress
\* callback the callback can return at once, with the progress channel full
\* and with the event loop gone too; a call either puts its message in the
\* channel or, when all slots are taken, leaves the channel as it is; the
\* completion message finds its slot free; and every analysis started ends,
\* whatever the event loop, the listeners and the user do
C34_CallbackNeverBlocks ==
    /\ [](\A i \in Runs :
             tui.runs[i].pc = "analyze" =>
                 /\ ENABLED AnalysisStep(i)
                 /\ Len(tui.runs[i].doneChan) < DoneSlots)
    /\ [][\A i \in Runs :
             tui'.runs[i].next # tui.runs[i].next =>
                 /\ tui'.runs[i].next = tui.runs[i].next + 1
                 /\ IF Len(tui.runs[i].progressChan) < ProgressSlots
                    THEN Len(tui'.runs[i].progressChan) = Len(tui.runs[i].progressChan) + 1
                    ELSE tui'.runs[i].progressChan = tui.runs[i].progressChan]_vars
    /\ []<>AllAnalysesOver

\* the user quit before the event loop took the analysisStartedMsg: the
\* analysis went on, filled the progress channel, lost an update and ended
C34_Witness ==
    /\ tui.quit
    /\ \E i \in Runs :
          /\ i \in tui.started
          /\ tui.runs[i].pc = "terminated"
          /\ tui.runs[i].calls > ProgressSlots
          /\ Len(tui.runs[i].progressChan) = ProgressSlots
          /\ Len(tui.runs[i].doneChan) = DoneSlots

\* the analyses requested so far
Requested == tui.starts + Len(tui.runs)

\* the analyses requested whose completion message Update has not handled
InFlightAnalyses ==
    tui.starts + Cardinality({i \in Runs : i \in tui.started \/ tui.listenCompletion[i] > 0})

\* the analysis tasks that have not made their last step
RunningAnalyses == Cardinality({i \in Runs : tui.runs[i].pc = "analyze"})

\* C39: at most one analysis is in flight, and one is exactly while the
\* Model is loading; the Model is never both loading and ready; an analysis
\* is requested only by a step that finds the Model ready and not loading,
\* and leaves it loading and not ready; a key other than quit that finds
\* the Model not ready, loading or failed, changes nothing of the Model and
\* requests no analysis
C39_OneAnalysisInFlight ==
    /\ [](/\ InFlightAnalyses <= 1
          /\ tui.starts + RunningAnalyses <= 1
          /\ tui.m.loading <=> InFlightAnalyses = 1
          /\ ~(tui.m.loading /\ tui.m.ready))
    /\ [][/\ Requested' > Requested =>
                /\ tui.m.ready /\ ~tui.m.loading
                /\ tui'.m.loading /\ ~tui'.m.ready
                /\ Requested' = Requested + 1
          /\ (tui'.keys # tui.keys /\ ~tui'.quit /\ ~tui.m.ready) =>
                /\ tui'.m = tui.m
                /\ Requested' = Requested]_vars

\* a refresh was accepted after the first analysis had completed: the
\* second analysis runs and the Model is loading again
C39_Witness ==
    /\ tui.keys >= 1
    /\ ~tui.quit
    /\ Len(tui.runs) = 2
    /\ tui.runs[1].pc = "terminated"
    /\ tui.runs[2].pc = "analyze"
    /\ tui.runs[2].next > 1
    /\ tui.m.loading
    /\ tui.m.result > 0

\* C35: the result queue is closed only when every worker has left its
\* loop, and nothing is added to it once it is closed; Done is sent only
\* after the result queue was closed; and once the orchestrator has
\* received Done no job and no result is left anywhere: every job published
\* has been merged into the collector
C35_ResultsClosedAfterWorkers ==
    /\ [](/\ resultsClosed => \A w \in Workers : workers[w].pc = "exited"
          /\ closer \in {"send", "finished"} <=> resultsClosed
          /\ orch \in {"finish", "returned"} =>
                /\ closer = "finished"
                /\ Len(jobs) = 0
                /\ Holding = 0
                /\ Len(results) = 0
                /\ merged \in Seq(Rels(tree))
                /\ Len(merged) = Len(published)
                /\ rc.totalFiles = Len(published))
    /\ [][resultsClosed => resultsClosed' /\ Len(results') <= Len(results)]_vars

\* Done was received in a run of two workers whose results were merged out
\* of walk order
C35_Witness ==
    /\ orch = "finish"
    /\ EffectiveWorkers(workerCount) = 2
    /\ Len(merged) >= 3
    /\ merged # published

\* C36: the recorded error is written only while the job queue is open and
\* the orchestrator is still draining results; the job queue is closed
\* before any worker leaves its loop, the workers leave before the result
\* queue is closed, and that is closed before Done is received, so when the
\* orchestrator reads the recorded error the walker has returned and writes
\* no more; the call returns the error recorded, and returns an error
\* whenever one was recorded
C36_ErrorReadAfterLastWrite ==
    /\ [](/\ (\E w \in Workers : workers[w].pc = "exited") => jobsClosed
          /\ resultsClosed => \A w \in Workers : workers[w].pc = "exited"
          /\ orch \in {"finish", "returned"} =>
                resultsClosed /\ jobsClosed /\ walker.pc = "done"
          /\ orch = "returned" => ret.err = discoveryError)
    /\ [][/\ discoveryError' # discoveryError =>
                /\ ~jobsClosed /\ ~jobsClosed'
                /\ walker.pc = "walk"
                /\ orch = "drain" /\ orch' = "drain"
                /\ discoveryError = NoError
          /\ orch' # orch => discoveryError' = discoveryError]_vars

\* a run in which the walker recorded an error and published a file, which
\* was merged, returned that error
C36_Witness ==
    /\ orch = "returned"
    /\ ret.err # NoError
    /\ ret.err = discoveryError
    /\ Len(published) >= 1
    /\ Len(merged) = Len(published)
    /\ tree[1].kind = "dir"

\* C37: the character list a run returns has one entry per key of the
\* global character map and no two of its entries carry the same text, in
\* ASCII-only mode and in full-Unicode mode
C37_DistinctCharacters ==
    (analysis.pc = "returned" /\ analysis.err = NoError) =>
        With(analysis.result.CharCounts, LAMBDA list :
            /\ Len(list) = Cardinality(DOMAIN heap[rc.totalCharMap])
            /\ \A i, j \in 1..Len(list) : list[i].Text = list[j].Text => i = j)

\* C38: the map that AnalyzeSymbols combines from the 2-gram and the 3-gram
\* map of a run has as many entries as the two maps together: each packed
\* key has its own string, a 2-gram key one of two bytes and a 3-gram key
\* one of three, and the entry of that string carries the key's global count
C38_CombinedSequenceMap ==
    (orch = "returned" /\ ret.err = NoError) =>
        With(SequenceMap(ret.result), LAMBDA sequenceMap :
            /\ Cardinality(DOMAIN sequenceMap) =
                  Cardinality(DOMAIN ret.result.SequenceMap2)
                      + Cardinality(DOMAIN ret.result.SequenceMap3)
            /\ \A k2 \in DOMAIN ret.result.SequenceMap2 :
                  /\ Len(Unpack2(k2)) = 2
                  /\ Unpack2(k2) \in DOMAIN sequenceMap
                  /\ sequenceMap[Unpack2(k2)] = ret.result.SequenceMap2[k2]
            /\ \A k3 \in DOMAIN ret.result.SequenceMap3 :
                  /\ Len(Unpack3(k3)) = 3
                  /\ Unpack3(k3) \in DOMAIN sequenceMap
                  /\ sequenceMap[Unpack3(k3)] = ret.result.SequenceMap3[k3]
            /\ \A x, y \in DOMAIN ret.result.SequenceMap2 : Unpack2(x) = Unpack2(y) => x = y
            /\ \A x, y \in DOMAIN ret.result.SequenceMap3 : Unpack3(x) = Unpack3(y) => x = y)

\* a run returned 2-grams and 3-grams, among them a 3-gram that ends in
\* the bytes of a 2-gram of another count
C38_Witness ==
    /\ orch = "returned"
    /\ ret.err = NoError
    /\ Cardinality(DOMAIN ret.result.SequenceMap2) >= 2
    /\ \E k3 \in DOMAIN ret.result.SequenceMap3 :
          /\ (k3 % 65536) \in DOMAIN ret.result.SequenceMap2
          /\ ret.result.SequenceMap2[k3 % 65536] # ret.result.SequenceMap3[k3]
====
